---- MODULE Spec2Model ----
(***************************************************************************)
(* A model of overdoc's analysis core: the dependency linker and the       *)
(* importance scorer (src/src/dependencies.rs), the per-file metrics and   *)
(* the knowledge scorer (src/src/metrics.rs) and the two-pass patch of the *)
(* scores in main (src/src/main.rs).                                       *)
(*                                                                         *)
(* Three specifications share the variables:                               *)
(*   SpecLink  build_dependency_graph and calculate_directory_importance   *)
(*             over every small corpus, the HashMap iteration order left   *)
(*             open;                                                       *)
(*   SpecFile  analyze_file / analyze_file_complexity over small file      *)
(*             contents;                                                   *)
(*   SpecMain  the metrics phase of main: analyze_repository, the          *)
(*             importance patch and the hotspot list.                      *)
(***************************************************************************)
EXTENDS Integers, Sequences, FiniteSets, TLC

VARIABLES
    pc,          \* position of the run
    \* the linking run
    exports,     \* ExportsMap: file path -> Vec<ExportedEntity>
    imports,     \* ImportsMap: imported name -> Vec<ImportReference>
    graph,       \* DependencyGraph
    dir_scores,  \* result of calculate_directory_importance
    namesLeft,   \* imports_map entries the outer loop has not visited yet
    curName,     \* the imports_map entry the outer loop is at
    filesLeft,   \* exports_map entries the middle loop has not visited yet
    \* the analysis of one file
    lang,        \* extension of the file, lowercased
    size,        \* metadata.len()
    lines,       \* the lines read, in blocks
    seen,        \* number of blocks the loop of analyze_file is past
    counters,    \* the counters of that loop and its block-comment flag
    fmetrics,    \* the FileMetrics under construction: <<>> or <<metrics>>
    file_imports, \* the Vec<ImportReference> extract_imports returns for the file
    \* the metrics phase of main
    metrics,     \* RepositoryMetrics
    toAnalyze,   \* file paths analyze_repository has not visited yet
    toPatch,     \* files the patch loop of main has not visited yet
    disk         \* the files of the repository as the reads of the run find them

linkVars == <<exports, imports, graph, dir_scores, namesLeft, curName, filesLeft>>

fileVars == <<lang, size, lines, seen, counters, fmetrics, file_imports>>

mainVars == <<metrics, toAnalyze, toPatch, disk>>

vars == <<pc, linkVars, fileVars, mainVars>>

----------------------------------------------------------------------------
(* Bounds of the model *)

\* at most this many exported entities in a corpus
MaxEntities == 2

\* at most this many import references in a corpus
MaxRefs == 2

\* at most this many blocks of lines in a file content
MaxBlocks == 2

----------------------------------------------------------------------------
(* Paths.  A path is the sequence of its components; "/" as first          *)
(* component is the root of an absolute path.                              *)

FileA == <<"r", "a.rs">>

FileB == <<"r", "s", "b.js">>

FileC == <<"r", "s", "c.py">>

Files == {FileA, FileB, FileC}

Names == {"foo", "bar"}

NoName == "<none>"

\* Path::parent: None for the root and for the empty path, else the path
\* without its last component
HasParent(p) == Len(p) > 0 /\ p # <<"/">>

Parent(p) == SubSeq(p, 1, Len(p) - 1)

----------------------------------------------------------------------------
(* Helpers *)

Max(a, b) == IF a >= b THEN a ELSE b

Min(a, b) == IF a <= b THEN a ELSE b

SeqsUpTo(S, n) == UNION {[1..k -> S] : k \in 1..n}

\* the sum of the lengths of the values of a map of sequences
RECURSIVE SumLens(_, _)
SumLens(m, S) ==
    IF S = {} THEN 0
    ELSE LET k == CHOOSE y \in S : TRUE IN Len(m[k]) + SumLens(m, S \ {k})

KeyLen(m) == SumLens(m, DOMAIN m)

\* exports.iter().map(|e| e.usage_count).sum() (dependencies.rs:133)
RECURSIVE SumUsage(_, _)
SumUsage(es, i) ==
    IF i > Len(es) THEN 0 ELSE es[i].usage_count + SumUsage(es, i + 1)

\* HashMap entry(k).or_default().insert(v) on a map of sets
MapInsert(m, k, v) ==
    IF k \in DOMAIN m THEN [m EXCEPT ![k] = @ \cup {v}] ELSE m @@ (k :> {v})

EmptyMap == <<>>

----------------------------------------------------------------------------
(* DependencyGraph *)

DependencyGraph_new ==
    [file_dependencies |-> EmptyMap,
     reverse_dependencies |-> EmptyMap,
     importance_scores |-> EmptyMap]

get_file_importance(g, f) ==
    IF f \in DOMAIN g.importance_scores THEN g.importance_scores[f] ELSE 0

\* the Vec returned holds each element of the set once; its order is the
\* HashSet's, so it is modelled by the set of its elements
get_dependent_files(g, f) ==
    IF f \in DOMAIN g.reverse_dependencies THEN g.reverse_dependencies[f] ELSE {}

get_dependencies(g, f) ==
    IF f \in DOMAIN g.file_dependencies THEN g.file_dependencies[f] ELSE {}

add_dependency_swapped(g, from, to) ==
    [g EXCEPT !.file_dependencies = MapInsert(@, to, from),
              !.reverse_dependencies = MapInsert(@, from, to)]

add_dependency_no_reverse(g, from, to) ==
    [g EXCEPT !.file_dependencies = MapInsert(@, from, to)]

add_dependency(g, from, to) ==
    [g EXCEPT !.file_dependencies = MapInsert(@, from, to),
              !.reverse_dependencies = MapInsert(@, to, from)]

SelfCheckAlways(import_file_path, export_file_path) == TRUE

\* dependencies.rs:107, the guard against self-dependencies
NotSelf(import_file_path, export_file_path) ==
    import_file_path # export_file_path

\* the loop over import_refs of one matching export (dependencies.rs:103-111)
RECURSIVE AddRefs(_, _, _, _)
AddRefs(g, import_refs, i, export_file_path) ==
    IF i > Len(import_refs) THEN g
    ELSE LET import_file_path == import_refs[i].file_path
             g2 == IF NotSelf(import_file_path, export_file_path)
                   THEN add_dependency(g, import_file_path, export_file_path)
                   ELSE g
         IN AddRefs(g2, import_refs, i + 1, export_file_path)

UsageOne(usage_count, import_refs) == usage_count + 1

\* dependencies.rs:100
UsageAdd(usage_count, import_refs) == usage_count + Len(import_refs)

LinkExportsRetain(es, g, i, import_name, import_refs, export_file_path) ==
    [exports |-> SelectSeq(es, LAMBDA e : e.name = import_name), graph |-> g]

\* the loop over the entities of one file (dependencies.rs:97-113); the
\* state folded is the pair of the file's entities and the graph
RECURSIVE LinkExports(_, _, _, _, _, _)
LinkExports(es, g, i, import_name, import_refs, export_file_path) ==
    IF i > Len(es) THEN [exports |-> es, graph |-> g]
    ELSE IF es[i].name = import_name
         THEN LinkExports(
                  [es EXCEPT ![i].usage_count = UsageAdd(@, import_refs)],
                  AddRefs(g, import_refs, 1, export_file_path),
                  i + 1, import_name, import_refs, export_file_path)
         ELSE LinkExports(es, g, i + 1, import_name, import_refs, export_file_path)

FilesAfterFirstMatch(left, f, es, import_name) ==
    IF \E i \in 1..Len(es) : es[i].name = import_name THEN {} ELSE left \ {f}

\* the middle loop goes on over every entry of exports_map, whether or not
\* the entry just visited held a match (dependencies.rs:96)
FilesAfter(left, f, es, import_name) == left \ {f}

ImportanceNoDouble(usage_score, dependent_files) == usage_score + dependent_files

\* dependencies.rs:143
ImportanceOf(usage_score, dependent_files) == usage_score + (dependent_files * 2)

\* calculate_importance_scores (dependencies.rs:129-155)
calculate_importance_scores(g, exports_map) ==
    [g EXCEPT !.importance_scores =
        [f \in DOMAIN exports_map |->
            ImportanceOf(
                SumUsage(exports_map[f], 1),
                Cardinality(get_dependent_files(g, f)))]]

\* the while-let walk over the parents of one file (dependencies.rs:169-182)
RECURSIVE WalkParents(_, _, _)
WalkParents(scores, current, file_score) ==
    IF ~HasParent(current) THEN scores
    ELSE LET parent == Parent(current) IN
         IF parent = <<>> THEN scores
         ELSE WalkParents(
                  IF parent \in DOMAIN scores
                  THEN [scores EXCEPT ![parent] = @ + file_score]
                  ELSE scores @@ (parent :> file_score),
                  parent, file_score)

WalkParentsOnce(scores, current, file_score) ==
    IF ~HasParent(current) \/ Parent(current) = <<>> THEN scores
    ELSE LET parent == Parent(current) IN
         IF parent \in DOMAIN scores
         THEN [scores EXCEPT ![parent] = @ + file_score]
         ELSE scores @@ (parent :> file_score)

\* the ancestors of one file, each given the file's whole score
\* (dependencies.rs:166-182)
AddFileToDirs(scores, file_path, file_score) ==
    WalkParents(scores, file_path, file_score)

\* calculate_directory_importance (dependencies.rs:158-199)
RECURSIVE DirLoop(_, _, _)
DirLoop(scores, left, g) ==
    IF left = {} THEN scores
    ELSE LET f == CHOOSE x \in left : TRUE IN
         DirLoop(AddFileToDirs(scores, f, get_file_importance(g, f)), left \ {f}, g)

calculate_directory_importance(g, exports_map) ==
    DirLoop(EmptyMap, DOMAIN exports_map, g)

----------------------------------------------------------------------------
(* The linking run: build_dependency_graph, then                           *)
(* calculate_directory_importance (main.rs:105-110)                        *)

\* the entities extract_exports makes of the exported names of a file
\* (exports.rs:138-144); the names stand for lines that export a function
Entities(names, f) ==
    [i \in 1..Len(names) |->
        [name |-> names[i], file_path |-> f, line_number |-> i,
         export_type |-> "function", usage_count |-> 0]]

Refs(files, n) ==
    [i \in 1..Len(files) |-> [name |-> n, file_path |-> files[i], line_number |-> i]]

\* every corpus scan_repository can hand over: the files with at least one
\* export, the names with at least one reference
ExportsMapsOver(files) ==
    UNION {{[f \in K |-> Entities(m[f], f)] :
               m \in {x \in [K -> SeqsUpTo(Names, MaxEntities)] : KeyLen(x) <= MaxEntities}} :
           K \in SUBSET files}

ImportsMapsOver(files) ==
    UNION {{[n \in N |-> Refs(m[n], n)] :
               m \in {x \in [N -> SeqsUpTo(files, MaxRefs)] : KeyLen(x) <= MaxRefs}} :
           N \in SUBSET Names}

ExportsMaps == ExportsMapsOver(Files)

ImportsMaps == ImportsMapsOver(Files)

\* the variables of the other runs, at rest
FileIdle ==
    /\ lang = "rs"
    /\ size = 0
    /\ lines = <<>>
    /\ seen = 0
    /\ counters = <<>>
    /\ fmetrics = <<>>
    /\ file_imports = <<>>

LinkIdle ==
    /\ exports = EmptyMap
    /\ imports = EmptyMap
    /\ graph = DependencyGraph_new
    /\ dir_scores = EmptyMap
    /\ namesLeft = {}
    /\ curName = NoName
    /\ filesLeft = {}

\* the locals of analyze_repository before its loop (metrics.rs:265-275),
\* with the fields of RepositoryMetrics they end in (metrics.rs:97-113)
RepositoryStart ==
    [file_metrics |-> EmptyMap,
     total_files |-> 0,
     total_lines |-> 0,
     total_code_lines |-> 0,
     total_comment_lines |-> 0,
     total_blank_lines |-> 0,
     total_size_bytes |-> 0,
     language_distribution |-> EmptyMap,
     total_cyclomatic_complexity |-> 0,
     total_cognitive_complexity |-> 0,
     total_maintainability_index |-> 0,
     files_with_complexity |-> 0,
     avg_file_size |-> 0,
     avg_lines_per_file |-> 0,
     avg_comment_ratio |-> 0,
     avg_cyclomatic_complexity |-> 0,
     avg_cognitive_complexity |-> 0,
     avg_maintainability_index |-> 0,
     knowledge_hotspots |-> <<>>]

MainIdle ==
    /\ metrics = RepositoryStart
    /\ toAnalyze = <<>>
    /\ toPatch = <<>>
    /\ disk = EmptyMap

InitLink ==
    /\ pc = "link"
    /\ exports \in ExportsMaps
    /\ imports \in ImportsMaps
    /\ graph = DependencyGraph_new
    /\ dir_scores = EmptyMap
    /\ namesLeft = DOMAIN imports
    /\ curName = NoName
    /\ filesLeft = {}
    /\ FileIdle
    /\ MainIdle

\* the outer loop takes the next entry of imports_map (dependencies.rs:94)
PickName ==
    /\ pc = "link"
    /\ curName = NoName
    /\ \E n \in namesLeft :
        /\ curName' = n
        /\ namesLeft' = namesLeft \ {n}
        /\ filesLeft' = DOMAIN exports
    /\ UNCHANGED <<pc, exports, imports, graph, dir_scores>>

\* the middle loop takes the next entry of exports_map and runs the inner
\* loops over its entities (dependencies.rs:96-114)
VisitFile ==
    /\ pc = "link"
    /\ curName # NoName
    /\ \E f \in filesLeft :
        LET r == LinkExports(exports[f], graph, 1, curName, imports[curName], f) IN
        /\ exports' = [exports EXCEPT ![f] = r.exports]
        /\ graph' = r.graph
        /\ filesLeft' = FilesAfter(filesLeft, f, exports[f], curName)
    /\ UNCHANGED <<pc, imports, dir_scores, namesLeft, curName>>

\* the middle loop is over
EndName ==
    /\ pc = "link"
    /\ curName # NoName
    /\ filesLeft = {}
    /\ curName' = NoName
    /\ UNCHANGED <<pc, exports, imports, graph, dir_scores, namesLeft, filesLeft>>

\* the outer loop is over: calculate_importance_scores, and the graph is
\* returned (dependencies.rs:118-125)
EndLink ==
    /\ pc = "link"
    /\ curName = NoName
    /\ namesLeft = {}
    /\ graph' = calculate_importance_scores(graph, exports)
    /\ pc' = "linked"
    /\ UNCHANGED <<exports, imports, dir_scores, namesLeft, curName, filesLeft>>

\* main.rs:109-110
DirImportance ==
    /\ pc = "linked"
    /\ dir_scores' = calculate_directory_importance(graph, exports)
    /\ pc' = "dirs"
    /\ UNCHANGED <<exports, imports, graph, namesLeft, curName, filesLeft>>

\* build_dependency_graph run in one fixed order of names and of files
RECURSIVE FixedFiles(_, _, _, _)
FixedFiles(st, left, import_name, import_refs) ==
    IF left = {} THEN st
    ELSE LET f == CHOOSE x \in left : TRUE
             r == LinkExports(st.exports[f], st.graph, 1, import_name, import_refs, f)
         IN FixedFiles([exports |-> [st.exports EXCEPT ![f] = r.exports], graph |-> r.graph],
                       FilesAfter(left, f, st.exports[f], import_name),
                       import_name, import_refs)

RECURSIVE FixedNames(_, _, _)
FixedNames(st, left, imports_map) ==
    IF left = {} THEN st
    ELSE LET n == CHOOSE x \in left : TRUE IN
         FixedNames(FixedFiles(st, DOMAIN st.exports, n, imports_map[n]),
                    left \ {n}, imports_map)

FixedOrderRun(exports_map, imports_map) ==
    LET st == FixedNames([exports |-> exports_map, graph |-> DependencyGraph_new],
                         DOMAIN imports_map, imports_map)
    IN [exports |-> st.exports,
        graph |-> calculate_importance_scores(st.graph, st.exports)]

NextLink ==
    \/ (PickName /\ UNCHANGED <<fileVars, mainVars>>)
    \/ (VisitFile /\ UNCHANGED <<fileVars, mainVars>>)
    \/ (EndName /\ UNCHANGED <<fileVars, mainVars>>)
    \/ (EndLink /\ UNCHANGED <<fileVars, mainVars>>)
    \/ (DirImportance /\ UNCHANGED <<fileVars, mainVars>>)

SpecLink == InitLink /\ [][NextLink]_vars

----------------------------------------------------------------------------
(* Text.  A string is the sequence of its characters, a file content the   *)
(* sequence of its lines (str::lines).                                     *)

Letters ==
    {"a", "b", "c", "d", "e", "f", "g", "h", "i", "j", "k", "l", "m",
     "n", "o", "p", "q", "r", "s", "t", "u", "v", "w", "x", "y", "z"}

Digits == {"0", "1", "2", "3", "4", "5", "6", "7", "8", "9"}

Whitespace == {" ", "\t"}

\* char::is_alphanumeric or '_' (metrics.rs:742)
WordChars == Letters \cup Digits \cup {"_"}

\* char::is_digit(10) or '.' (metrics.rs:753)
NumberChars == Digits \cup {"."}

RECURSIVE TrimStart(_)
TrimStart(s) ==
    IF s # <<>> /\ Head(s) \in Whitespace THEN TrimStart(Tail(s)) ELSE s

RECURSIVE TrimEnd(_)
TrimEnd(s) ==
    IF s # <<>> /\ s[Len(s)] \in Whitespace
    THEN TrimEnd(SubSeq(s, 1, Len(s) - 1)) ELSE s

\* str::trim
Trim(s) == TrimEnd(TrimStart(s))

\* str::starts_with
StartsWith(s, p) == Len(s) >= Len(p) /\ SubSeq(s, 1, Len(p)) = p

\* str::ends_with
EndsWith(s, p) == Len(s) >= Len(p) /\ SubSeq(s, Len(s) - Len(p) + 1, Len(s)) = p

MatchAt(s, p, i) == i + Len(p) - 1 <= Len(s) /\ SubSeq(s, i, i + Len(p) - 1) = p

\* str::contains
Contains(s, p) == \E i \in 1..(Len(s) - Len(p) + 1) : MatchAt(s, p, i)

\* str::matches(p).count(): the matches that do not overlap, from the left
RECURSIVE MatchCount(_, _, _)
MatchCount(s, p, i) ==
    IF i + Len(p) - 1 > Len(s) THEN 0
    ELSE IF MatchAt(s, p, i) THEN 1 + MatchCount(s, p, i + Len(p))
    ELSE MatchCount(s, p, i + 1)

\* str::find from position pos (1-based here); 0 when there is no match
RECURSIVE Find(_, _, _)
Find(s, p, pos) ==
    IF pos + Len(p) - 1 > Len(s) THEN 0
    ELSE IF MatchAt(s, p, pos) THEN pos
    ELSE Find(s, p, pos + 1)

\* count_occurrences (metrics.rs:860-876)
RECURSIVE count_occurrences_from(_, _, _)
count_occurrences_from(text, pattern, pos) ==
    LET idx == Find(text, pattern, pos) IN
    IF idx = 0 THEN 0
    ELSE IF idx + Len(pattern) > Len(text) THEN 1
    ELSE 1 + count_occurrences_from(text, pattern, idx + Len(pattern))

count_occurrences(text, pattern) == count_occurrences_from(text, pattern, 1)

\* str::split(|c| c is not one of chars), the empty pieces left out
RECURSIVE Runs(_, _, _, _)
Runs(s, i, cur, chars) ==
    IF i > Len(s) THEN (IF cur = <<>> THEN <<>> ELSE <<cur>>)
    ELSE IF s[i] \in chars THEN Runs(s, i + 1, Append(cur, s[i]), chars)
    ELSE (IF cur = <<>> THEN <<>> ELSE <<cur>>) \o Runs(s, i + 1, <<>>, chars)

AllIn(s, chars) == \A i \in 1..Len(s) : s[i] \in chars

\* str::parse::<f64>().is_ok() on a text of letters, digits, '_' and '.':
\* digits with at most one '.', an optional exponent of digits, or one of
\* the words inf, infinity, nan
IsDecimal(s) ==
    /\ AllIn(s, NumberChars)
    /\ \E i \in 1..Len(s) : s[i] \in Digits
    /\ Cardinality({i \in 1..Len(s) : s[i] = "."}) <= 1

ParsesAsF64(s) ==
    \/ IsDecimal(s)
    \/ \E i \in 2..(Len(s) - 1) :
        /\ s[i] = "e"
        /\ IsDecimal(SubSeq(s, 1, i - 1))
        /\ SubSeq(s, i + 1, Len(s)) # <<>>
        /\ AllIn(SubSeq(s, i + 1, Len(s)), Digits)
    \/ s \in {<<"i", "n", "f">>, <<"i", "n", "f", "i", "n", "i", "t", "y">>, <<"n", "a", "n">>}

\* Path::extension of a path, lowercased: the text after the last '.' of the
\* file name; the file names of the model carry one of these extensions
Extensions == {"rs", "js", "py"}

LangRs(extension) == extension = "rs"

LangJs(extension) == extension \in {"js", "ts", "tsx", "jsx"}

----------------------------------------------------------------------------
(* Numbers.  An f64 is modelled in fixed point, as the integer number of   *)
(* thousandths, every division rounding down; NaN is kept apart.           *)

Scale == 1000

Pow2(k) == 2 ^ k

RECURSIVE FloorLog2(_)
FloorLog2(n) == IF n < 2 THEN 0 ELSE 1 + FloorLog2(n \div 2)

\* the fraction bits of log2 of a mantissa y in [1, 2), y in units of 2^-14:
\* squaring the mantissa shifts the next bit of the logarithm out
RECURSIVE Log2Bits(_, _)
Log2Bits(y, bits) ==
    IF bits = 0 THEN 0
    ELSE LET sq == (y * y) \div Pow2(14) IN
         IF sq >= 2 * Pow2(14)
         THEN Pow2(bits - 1) + Log2Bits(sq \div 2, bits - 1)
         ELSE Log2Bits(sq, bits - 1)

\* f64::log2 of the integer n >= 1, in thousandths
Log2(n) ==
    LET k == FloorLog2(n)
        y == IF k >= 14 THEN n \div Pow2(k - 14) ELSE n * Pow2(14 - k)
    IN Scale * k + (Scale * Log2Bits(y, 10)) \div Pow2(10)

\* f64::ln of the integer n >= 1, in thousandths: log2(n) * ln(2)
Ln(n) == (Log2(n) * 6931) \div 10000

\* f64::ln of an f64 > 0 given in thousandths, in thousandths
LnOf(m) == ((Log2(m) - Log2(Scale)) * 6931) \div 10000

\* Option<f64>: None, Some(NaN) or Some(m thousandths)
NoneF == [some |-> FALSE, nan |-> FALSE, m |-> 0]

\* f64: NaN, or m thousandths
F(m) == [nan |-> FALSE, m |-> m]

NaN == [nan |-> TRUE, m |-> 0]

SomeOf(x) == [some |-> TRUE, nan |-> x.nan, m |-> x.m]

----------------------------------------------------------------------------
(* A file content is a sequence of blocks; a block is one line and the     *)
(* number k: the line stands 2^k times in a row in the file.               *)

RECURSIVE LineCountFrom(_, _)
LineCountFrom(content, i) ==
    IF i > Len(content) THEN 0 ELSE Pow2(content[i].k) + LineCountFrom(content, i + 1)

LineCount(content) ==
    LineCountFrom(content, 1)

----------------------------------------------------------------------------
(* analyze_file: the classification of the lines (metrics.rs:141-224)      *)

DeclTypesRs ==
    {[pat |-> <<"s", "t", "r", "u", "c", "t", " ">>, key |-> "struct"], [pat |-> <<"e", "n", "u", "m", " ">>, key |-> "enum"],
     [pat |-> <<"t", "r", "a", "i", "t", " ">>, key |-> "trait"], [pat |-> <<"i", "m", "p", "l", " ">>, key |-> "impl"],
     [pat |-> <<"t", "y", "p", "e", " ">>, key |-> "type"]}

DeclTypesJs ==
    {[pat |-> <<"c", "l", "a", "s", "s", " ">>, key |-> "class"], [pat |-> <<"i", "n", "t", "e", "r", "f", "a", "c", "e", " ">>, key |-> "interface"],
     [pat |-> <<"t", "y", "p", "e", " ">>, key |-> "type"], [pat |-> <<"e", "n", "u", "m", " ">>, key |-> "enum"]}

\* what the loop body reads of one line
ClassFacts(line, extension) ==
    LET trimmed == Trim(line)
        no_semicolon == ~Contains(trimmed, <<";">>)
    IN [blank |-> trimmed = <<>>,
        line_comment |-> StartsWith(trimmed, <<"/", "/">>),
        hash_comment |-> StartsWith(trimmed, <<"#">>),
        block_open |-> StartsWith(trimmed, <<"/", "*">>),
        block_close |-> Contains(trimmed, <<"*", "/">>),
        is_function |->
            IF LangRs(extension)
            THEN Contains(trimmed, <<"f", "n", " ">>) /\ no_semicolon
            ELSE (Contains(trimmed, <<"f", "u", "n", "c", "t", "i", "o", "n", " ">>) \/ Contains(trimmed, <<"=", ">">>))
                 /\ no_semicolon,
        decls |->
            {d.key : d \in {x \in (IF LangRs(extension) THEN DeclTypesRs ELSE DeclTypesJs) :
                               Contains(trimmed, x.pat) /\ no_semicolon}}]

ScanStart ==
    [code_lines |-> 0, comment_lines |-> 0, blank_lines |-> 0,
     in_block_comment |-> FALSE, function_count |-> 0, declarations |-> EmptyMap]

\* *declarations.entry(key).or_insert(0) += 1, for every key of keys
RECURSIVE CountDecls(_, _)
CountDecls(declarations, keys) ==
    IF keys = {} THEN declarations
    ELSE LET key == CHOOSE x \in keys : TRUE IN
         CountDecls(IF key \in DOMAIN declarations
                    THEN [declarations EXCEPT ![key] = @ + 1]
                    ELSE declarations @@ (key :> 1),
                    keys \ {key})

\* a code line of a supported language (metrics.rs:165-178, 196-211)
CodeLine(st, f) ==
    [st EXCEPT !.code_lines = @ + 1,
               !.function_count = IF f.is_function THEN @ + 1 ELSE @,
               !.declarations = CountDecls(@, f.decls)]

ClassifyLineCloseUncounted(st, f, extension) ==
    IF f.blank THEN [st EXCEPT !.blank_lines = @ + 1]
    ELSE IF (LangRs(extension) \/ LangJs(extension)) /\ st.in_block_comment
    THEN IF f.block_close THEN [st EXCEPT !.in_block_comment = FALSE]
         ELSE [st EXCEPT !.comment_lines = @ + 1]
    ELSE IF f.line_comment \/ (~LangRs(extension) /\ ~LangJs(extension) /\ f.hash_comment)
    THEN [st EXCEPT !.comment_lines = @ + 1]
    ELSE IF (LangRs(extension) \/ LangJs(extension)) /\ f.block_open
    THEN [st EXCEPT !.comment_lines = @ + 1, !.in_block_comment = ~f.block_close]
    ELSE [st EXCEPT !.code_lines = @ + 1]

\* one pass of the loop body (metrics.rs:142-223)
ClassifyLine(st, f, extension) ==
    IF f.blank THEN [st EXCEPT !.blank_lines = @ + 1]
    ELSE IF LangRs(extension) \/ LangJs(extension)
    THEN IF st.in_block_comment
         THEN [st EXCEPT !.comment_lines = @ + 1,
                         !.in_block_comment = ~f.block_close]
         ELSE IF f.line_comment THEN [st EXCEPT !.comment_lines = @ + 1]
         ELSE IF f.block_open
         THEN [st EXCEPT !.comment_lines = @ + 1,
                         !.in_block_comment = ~f.block_close]
         ELSE CodeLine(st, f)
    ELSE IF f.hash_comment \/ f.line_comment
         THEN [st EXCEPT !.comment_lines = @ + 1]
         ELSE [st EXCEPT !.code_lines = @ + 1]

\* the loop body run over the 2^k equal lines of a block: over its first
\* half, then over its second half (the test has TLC work out the first
\* half before it starts on the second)
RECURSIVE ClassifyBlock(_, _, _, _)
ClassifyBlock(st, f, extension, k) ==
    IF k = 0 THEN ClassifyLine(st, f, extension)
    ELSE LET half == ClassifyBlock(st, f, extension, k - 1) IN
         IF half = half THEN ClassifyBlock(half, f, extension, k - 1) ELSE half

----------------------------------------------------------------------------
(* calculate_complexity_metrics (metrics.rs:384-479)                       *)

ContainsAny(s, pats) == \E p \in pats : Contains(s, p)

CyclomaticKeywords(extension) ==
    IF LangRs(extension)
    THEN {<<"i", "f", " ">>, <<"e", "l", "s", "e", " ">>, <<"m", "a", "t", "c", "h", " ">>, <<"f", "o", "r", " ">>, <<"w", "h", "i", "l", "e", " ">>}
    ELSE IF LangJs(extension)
    THEN {<<"i", "f", " ">>, <<"e", "l", "s", "e", " ">>, <<"s", "w", "i", "t", "c", "h", " ">>, <<"c", "a", "s", "e", " ">>, <<"f", "o", "r", " ">>, <<"w", "h", "i", "l", "e", " ">>, <<"?", " ">>}
    ELSE {<<"i", "f", " ">>, <<"e", "l", "s", "e", " ">>, <<"f", "o", "r", " ">>, <<"w", "h", "i", "l", "e", " ">>}

\* what the two loops read of one line
BasicFacts(line, extension) ==
    LET trimmed == Trim(line) IN
    [open_count |-> MatchCount(trimmed, <<"{">>, 1) + MatchCount(trimmed, <<"(">>, 1)
                    + MatchCount(trimmed, <<"[">>, 1),
     close_count |-> MatchCount(trimmed, <<"}">>, 1) + MatchCount(trimmed, <<")">>, 1)
                     + MatchCount(trimmed, <<"]">>, 1),
     branches |-> ContainsAny(trimmed, CyclomaticKeywords(extension))]

BasicStartNoBase == [max_depth |-> 0, current_depth |-> 0, complexity |-> 0]

\* max_depth, current_depth (metrics.rs:401-402) and the base complexity
\* (metrics.rs:427)
BasicStart == [max_depth |-> 0, current_depth |-> 0, complexity |-> 1]

BasicLineLastDepth(st, f) ==
    LET depth == st.current_depth + f.open_count - f.close_count IN
    [max_depth |-> depth,
     current_depth |-> depth,
     complexity |-> IF f.branches THEN st.complexity + 1 ELSE st.complexity]

\* one pass of the nesting loop (metrics.rs:404-421) and of the loop of the
\* language that counts the branching lines (metrics.rs:432-472)
BasicLine(st, f) ==
    LET depth == st.current_depth + f.open_count - f.close_count IN
    [max_depth |-> IF depth > st.max_depth THEN depth ELSE st.max_depth,
     current_depth |-> depth,
     complexity |-> IF f.branches THEN st.complexity + 1 ELSE st.complexity]

----------------------------------------------------------------------------
(* calculate_cognitive_complexity (metrics.rs:577-707)                     *)

CognitivePrimary(language) ==
    IF LangRs(language) THEN {<<"i", "f", " ">>, <<"m", "a", "t", "c", "h", " ">>, <<"f", "o", "r", " ">>, <<"w", "h", "i", "l", "e", " ">>}
    ELSE IF LangJs(language) THEN {<<"i", "f", " ">>, <<"f", "o", "r", " ">>, <<"w", "h", "i", "l", "e", " ">>, <<"s", "w", "i", "t", "c", "h", " ">>}
    ELSE {<<"i", "f", " ">>, <<"f", "o", "r", " ">>, <<"w", "h", "i", "l", "e", " ">>}

CognitiveFacts(line, language) ==
    LET trimmed == Trim(line) IN
    [primary |-> ContainsAny(trimmed, CognitivePrimary(language)),
     else_like |->
        IF LangJs(language)
        THEN Contains(trimmed, <<"e", "l", "s", "e", " ">>) \/ Contains(trimmed, <<"c", "a", "s", "e", " ">>)
        ELSE Contains(trimmed, <<"e", "l", "s", "e", " ">>),
     opens |-> Contains(trimmed, <<"{">>),
     has_if |-> Contains(trimmed, <<"i", "f", " ">>),
     closure |->
        IF LangRs(language)
        THEN Contains(trimmed, <<"|">>) /\ Contains(trimmed, <<"|", " ", "{">>)
        ELSE IF LangJs(language)
        THEN (Contains(trimmed, <<"=", ">">>) /\ Contains(trimmed, <<"{">>))
             \/ (Contains(trimmed, <<"f", "u", "n", "c", "t", "i", "o", "n">>) /\ Contains(trimmed, <<"{">>))
        ELSE FALSE,
     ternary |-> LangJs(language) /\ Contains(trimmed, <<" ", "?", " ">>),
     closes |-> Contains(trimmed, <<"}">>),
     close_count |-> MatchCount(trimmed, <<"}">>, 1),
     logical |->
        IF LangRs(language) \/ LangJs(language)
        THEN MatchCount(trimmed, <<"&", "&">>, 1) + MatchCount(trimmed, <<"|", "|">>, 1)
        ELSE 0]

CognitiveStart == [complexity |-> 0, nesting_level |-> 0]

\* usize::saturating_sub
saturating_sub(a, b) == IF a >= b THEN a - b ELSE 0

\* the if / else-if chain of one pass (metrics.rs:588-620, 635-669, 684-701);
\* the branch of the generic languages leaves the nesting level alone at an
\* else line
CognitiveKeyword(st, f, language) ==
    IF f.primary
    THEN [complexity |-> st.complexity + Scale + Scale * st.nesting_level,
          nesting_level |-> IF f.opens THEN st.nesting_level + 1 ELSE st.nesting_level]
    ELSE IF f.else_like
    THEN [complexity |-> st.complexity + Scale,
          nesting_level |->
              IF (LangRs(language) \/ LangJs(language)) /\ f.opens /\ ~f.has_if
              THEN st.nesting_level + 1 ELSE st.nesting_level]
    ELSE IF f.closure
    THEN [complexity |-> st.complexity + Scale, nesting_level |-> st.nesting_level + 1]
    ELSE IF f.ternary
    THEN [st EXCEPT !.complexity = @ + Scale]
    ELSE IF f.closes
    THEN [st EXCEPT !.nesting_level = saturating_sub(@, f.close_count)]
    ELSE st

\* one pass of the loop body: the keyword chain, then 0.5 for each logical
\* operator of the line (metrics.rs:623-626, 672-675)
CognitiveLine(st, f, language) ==
    LET after == CognitiveKeyword(st, f, language) IN
    [after EXCEPT !.complexity = @ + (Scale \div 2) * f.logical]

----------------------------------------------------------------------------
(* calculate_halstead_data (metrics.rs:710-857)                            *)

OperatorsRs ==
    {<<"+">>, <<"-">>, <<"*">>, <<"/">>, <<"%">>, <<"=", "=">>, <<"!", "=">>, <<"<">>, <<">">>, <<"<", "=">>, <<">", "=">>, <<"&", "&">>,
     <<"|", "|">>, <<"!">>, <<"&">>, <<"|">>, <<"^">>, <<"<", "<">>, <<">", ">">>, <<"=">>, <<"+", "=">>, <<"-", "=">>, <<"*", "=">>, <<"/", "=">>,
     <<"%", "=">>, <<"&", "=">>, <<"|", "=">>, <<"^", "=">>, <<"<", "<", "=">>, <<">", ">", "=">>, <<".">>, <<"-", ">">>, <<"=", ">">>, <<":", ":">>, <<";">>,
     <<",">>, <<"i", "f">>, <<"e", "l", "s", "e">>, <<"m", "a", "t", "c", "h">>, <<"f", "o", "r">>, <<"w", "h", "i", "l", "e">>, <<"l", "o", "o", "p">>, <<"b", "r", "e", "a", "k">>,
     <<"c", "o", "n", "t", "i", "n", "u", "e">>, <<"r", "e", "t", "u", "r", "n">>, <<"f", "n">>, <<"s", "t", "r", "u", "c", "t">>, <<"e", "n", "u", "m">>, <<"i", "m", "p", "l">>, <<"t", "r", "a", "i", "t">>}

OperatorsJs ==
    {<<"+">>, <<"-">>, <<"*">>, <<"/">>, <<"%">>, <<"=", "=">>, <<"=", "=", "=">>, <<"!", "=">>, <<"!", "=", "=">>, <<"<">>, <<">">>, <<"<", "=">>,
     <<">", "=">>, <<"&", "&">>, <<"|", "|">>, <<"!">>, <<"&">>, <<"|">>, <<"^">>, <<"<", "<">>, <<">", ">">>, <<">", ">", ">">>, <<"=">>, <<"+", "=">>,
     <<"-", "=">>, <<"*", "=">>, <<"/", "=">>, <<"%", "=">>, <<"&", "=">>, <<"|", "=">>, <<"^", "=">>, <<"<", "<", "=">>, <<">", ">", "=">>, <<">", ">", ">", "=">>, <<".">>,
     <<"=", ">">>, <<"+", "+">>, <<"-", "-">>, <<"?">>, <<":">>, <<";">>, <<",">>, <<"i", "f">>, <<"e", "l", "s", "e">>, <<"s", "w", "i", "t", "c", "h">>,
     <<"c", "a", "s", "e">>, <<"f", "o", "r">>, <<"w", "h", "i", "l", "e">>, <<"d", "o">>, <<"b", "r", "e", "a", "k">>, <<"c", "o", "n", "t", "i", "n", "u", "e">>, <<"r", "e", "t", "u", "r", "n">>,
     <<"f", "u", "n", "c", "t", "i", "o", "n">>, <<"c", "l", "a", "s", "s">>, <<"n", "e", "w">>, <<"t", "h", "i", "s">>, <<"s", "u", "p", "e", "r">>}

OperatorsGeneric ==
    {<<"+">>, <<"-">>, <<"*">>, <<"/">>, <<"%">>, <<"=", "=">>, <<"!", "=">>, <<"<">>, <<">">>, <<"<", "=">>, <<">", "=">>, <<"&", "&">>,
     <<"|", "|">>, <<"!">>, <<"&">>, <<"|">>, <<"=">>, <<".">>, <<";">>, <<",">>, <<"i", "f">>, <<"e", "l", "s", "e">>, <<"f", "o", "r">>,
     <<"w", "h", "i", "l", "e">>, <<"r", "e", "t", "u", "r", "n">>}

operator_patterns(language) ==
    IF LangRs(language) THEN OperatorsRs
    ELSE IF LangJs(language) THEN OperatorsJs
    ELSE OperatorsGeneric

RECURSIVE SumCounts(_, _)
SumCounts(text, pats) ==
    IF pats = {} THEN 0
    ELSE LET p == CHOOSE x \in pats : TRUE IN
         count_occurrences(text, p) + SumCounts(text, pats \ {p})

Keep(s, ok(_)) == SelectSeq(s, ok)

\* what the loop body tallies for one line: the operators found and the
\* number of their occurrences, the operands found and the number of theirs
HalsteadFacts(line, language) ==
    LET trimmed == Trim(line)
        pats == operator_patterns(language)
        found == {p \in pats : count_occurrences(trimmed, p) > 0}
        words == Keep(Runs(trimmed, 1, <<>>, WordChars),
                      LAMBDA w : w \notin pats /\ ~ParsesAsF64(w))
        numbers == IF LangRs(language) \/ LangJs(language)
                   THEN Keep(Runs(trimmed, 1, <<>>, NumberChars),
                             LAMBDA w : ParsesAsF64(w))
                   ELSE <<>>
    IN [skipped |-> \/ StartsWith(trimmed, <<"/", "/">>)
                    \/ StartsWith(trimmed, <<"/", "*">>)
                    \/ (~LangRs(language) /\ ~LangJs(language)
                        /\ StartsWith(trimmed, <<"#">>)),
        operators |-> found,
        operator_count |-> SumCounts(trimmed, found),
        operands |-> {words[i] : i \in 1..Len(words)}
                     \cup {numbers[i] : i \in 1..Len(numbers)},
        operand_count |-> Len(words) + Len(numbers)]

\* the two tally maps; of each only the number of keys and the sum of the
\* values are read (metrics.rs:845-849)
HalsteadStart ==
    [operators |-> {}, total_operators |-> 0, operands |-> {}, total_operands |-> 0]

\* the keys of a tally map after the entries of one line
Tallied(keys, found) == IF found \subseteq keys THEN keys ELSE keys \cup found

HalsteadLine(st, f) ==
    IF f.skipped THEN st
    ELSE [operators |-> Tallied(st.operators, f.operators),
          total_operators |-> st.total_operators + f.operator_count,
          operands |-> Tallied(st.operands, f.operands),
          total_operands |-> st.total_operands + f.operand_count]

\* HalsteadData::volume (metrics.rs:493-502)
volume(h) ==
    LET n == Cardinality(h.operators) + Cardinality(h.operands)
        n_total == h.total_operators + h.total_operands
    IN IF n <= 0 THEN 0 ELSE n_total * Log2(n)

\* HalsteadData::difficulty (metrics.rs:505-512)
difficulty(h) ==
    IF Cardinality(h.operands) = 0 THEN 0
    ELSE (Scale * Cardinality(h.operators) * h.total_operands)
         \div (2 * Cardinality(h.operands))

----------------------------------------------------------------------------
(* analyze_file_complexity (metrics.rs:526-574)                            *)

\* one line through the loops of calculate_complexity_metrics,
\* calculate_cognitive_complexity and calculate_halstead_data; the loops
\* share nothing but the lines, so they are run side by side
ComplexityFacts(line, extension) ==
    [basic |-> BasicFacts(line, extension),
     cognitive |-> CognitiveFacts(line, extension),
     halstead |-> HalsteadFacts(line, extension)]

ComplexityStart ==
    [basic |-> BasicStart, cognitive |-> CognitiveStart, halstead |-> HalsteadStart]

ComplexityLine(st, f, extension) ==
    [basic |-> BasicLine(st.basic, f.basic),
     cognitive |-> CognitiveLine(st.cognitive, f.cognitive, extension),
     halstead |-> HalsteadLine(st.halstead, f.halstead)]

\* the 2^k equal lines of a block, half by half
RECURSIVE ComplexityBlock(_, _, _, _)
ComplexityBlock(st, f, extension, k) ==
    IF k = 0 THEN ComplexityLine(st, f, extension)
    ELSE LET half == ComplexityBlock(st, f, extension, k - 1) IN
         IF half = half THEN ComplexityBlock(half, f, extension, k - 1) ELSE half

RECURSIVE ComplexityLoops(_, _, _, _)
ComplexityLoops(st, content, i, extension) ==
    IF i > Len(content) THEN st
    ELSE ComplexityLoops(
             ComplexityBlock(st, ComplexityFacts(content[i].line, extension),
                             extension, content[i].k),
             content, i + 1, extension)

ClampNone(mi) == mi

\* metrics.rs:564-568
Clamp(mi) ==
    IF mi > 100 * Scale THEN 100 * Scale ELSE IF mi < 0 THEN 0 ELSE mi

\* MI = 171 - 5.2 ln(V) - 0.23 CC - 16.2 ln(LOC), or 100 (metrics.rs:556-571)
MaintainabilityIndex(loc, halstead_volume, cyclomatic_complexity) ==
    IF loc > 0 /\ halstead_volume > 0
    THEN Clamp(171 * Scale
               - (52 * LnOf(halstead_volume)) \div 10
               - 230 * cyclomatic_complexity
               - (162 * Ln(loc)) \div 10)
    ELSE 100 * Scale

\* the ComplexityMetrics of a content; halstead_effort and halstead_time,
\* which nothing reads, are left out
analyze_file_complexity(extension, content) ==
    LET st == ComplexityLoops(ComplexityStart, content, 1, extension)
        v == volume(st.halstead)
    IN [some |-> TRUE,
        cyclomatic_complexity |-> st.basic.complexity,
        max_nesting_depth |-> st.basic.max_depth,
        cognitive_complexity |-> st.cognitive.complexity,
        halstead_volume |-> v,
        halstead_difficulty |-> difficulty(st.halstead),
        maintainability_index |->
            MaintainabilityIndex(LineCount(content), v, st.basic.complexity)]

\* Option<ComplexityMetrics>::None
NoComplexity == [some |-> FALSE]

----------------------------------------------------------------------------
(* calculate_knowledge_score (metrics.rs:879-926)                          *)

RECURSIVE SumValues(_, _)
SumValues(m, keys) ==
    IF keys = {} THEN 0
    ELSE LET key == CHOOSE x \in keys : TRUE IN m[key] + SumValues(m, keys \ {key})

\* FileMetrics::export_importance (metrics.rs:90-92)
export_importance(fm) ==
    IF fm.export_importance.some
    THEN [nan |-> fm.export_importance.nan, m |-> fm.export_importance.m]
    ELSE F(0)

size_factor_unfloored(line_count) ==
    IF line_count = 0 THEN 0 ELSE 2 * Ln(line_count)

\* (line_count as f64).ln().max(1.0) * 2.0; ln(0) is -inf
size_factor(line_count) ==
    IF line_count = 0 THEN 2 * Scale ELSE 2 * Max(Ln(line_count), Scale)

NormalizeNoCap(knowledge_score) ==
    [nan |-> knowledge_score.nan, m |-> (knowledge_score.m * 85) \div 100]

\* (knowledge_score * 0.85).min(100.0); f64::min returns the other argument
\* when one is NaN (metrics.rs:923)
Normalize(knowledge_score) ==
    IF knowledge_score.nan THEN F(100 * Scale)
    ELSE F(Min((knowledge_score.m * 85) \div 100, 100 * Scale))

calculate_knowledge_score(fm, complexity) ==
    LET cc_norm15 == (Min(complexity.cyclomatic_complexity, 50) * 15 * Scale) \div 50
        cog_norm25 == (Min(complexity.cognitive_complexity, 200 * Scale) * 25) \div 200
        complexity_factor == cc_norm15 + cog_norm25
        maintainability_factor ==
            (Min(100 * Scale - complexity.maintainability_index, 100 * Scale) * 20) \div 100
        function_factor == (Min(fm.function_count, 20) * 15 * Scale) \div 20
        decl_count == SumValues(fm.declaration_count, DOMAIN fm.declaration_count)
        declaration_factor == (Min(decl_count, 10) * 10 * Scale) \div 10
        importance == export_importance(fm)
        export_factor == importance.m * 15
        knowledge_score ==
            [nan |-> importance.nan,
             m |-> size_factor(fm.line_count) + complexity_factor
                   + maintainability_factor + function_factor
                   + declaration_factor + export_factor]
    IN Normalize(knowledge_score)

\* FileMetrics::with_complexity (metrics.rs:70-76)
with_complexity(fm, complexity) ==
    LET with == [fm EXCEPT !.complexity_metrics = complexity] IN
    [with EXCEPT !.knowledge_score = SomeOf(calculate_knowledge_score(with, complexity))]

\* FileMetrics::knowledge_score (metrics.rs:79-81)
knowledge_score(fm) ==
    IF fm.knowledge_score.some
    THEN [nan |-> fm.knowledge_score.nan, m |-> fm.knowledge_score.m]
    ELSE F(0)

\* FileMetrics::with_export_importance (metrics.rs:84-87)
with_export_importance(fm, importance) == [fm EXCEPT !.export_importance = importance]

----------------------------------------------------------------------------
(* analyze_file (metrics.rs:116-261)                                       *)

\* the size from which on the complexity analysis is skipped (metrics.rs:244)
SizeLimit == 1024 * 1024

RECURSIVE ClassifyLoop(_, _, _, _)
ClassifyLoop(st, content, i, extension) ==
    IF i > Len(content) THEN st
    ELSE ClassifyLoop(
             ClassifyBlock(st, ClassFacts(content[i].line, extension),
                           extension, content[i].k),
             content, i + 1, extension)

\* the FileMetrics built from the counts of the loop (metrics.rs:229-241)
BasicMetrics(path, file_size, content, st) ==
    [path |-> path,
     line_count |-> LineCount(content),
     code_lines |-> st.code_lines,
     comment_lines |-> st.comment_lines,
     blank_lines |-> st.blank_lines,
     file_size_bytes |-> file_size,
     function_count |-> st.function_count,
     declaration_count |-> st.declarations,
     complexity_metrics |-> NoComplexity,
     knowledge_score |-> NoneF,
     export_importance |-> NoneF]

\* metrics.rs:244
SmallEnough(file_size) == file_size < SizeLimit

\* the complexity part (metrics.rs:243-258); calculate_complexity_metrics
\* has no failing path, so the Err arm is never taken
AddComplexity(fm, extension, content) ==
    IF SmallEnough(fm.file_size_bytes)
    THEN with_complexity(fm, analyze_file_complexity(extension, content))
    ELSE fm

analyze_file(path, extension, file_size, content) ==
    AddComplexity(
        BasicMetrics(path, file_size, content,
                     ClassifyLoop(ScanStart, content, 1, extension)),
        extension, content)

----------------------------------------------------------------------------
(* The analysis of one file, block by block                                *)

Line1 == <<"f", "n", " ", "a", "(", ")", "{", "}">>

Line2 == <<"f", "n", " ", "b", "(", ")", "{", " ", "i", "f", " ", "t", "r", "u", "e", " ", "{", "}", " ", "}">>

Line3 == <<>>

Line4 == <<"/", "/", " ", "i", "f", " ", "x">>

Line5 == <<"/", "*">>

Line6 == <<"*", "/">>

Line7 == <<"}", " ", "e", "l", "s", "e", " ", "{">>

Line8 == <<"i", "f", " ", "a", " ", "&", "&", " ", "b", " ", "{">>

Line9 == <<"x", " ", "=", " ", "1", ";">>

Line10 == <<"}">>

\* the blocks a content of the model is made of: every line once, and the
\* two lines of code 16 and 256 times
Blocks ==
    {[line |-> l, k |-> 0] :
        l \in {Line1, Line2, Line3, Line4, Line5, Line6, Line7, Line8, Line9,
               Line10}}
    \cup {[line |-> Line8, k |-> 4], [line |-> Line8, k |-> 8],
          [line |-> Line9, k |-> 4]}

Contents == {<<>>} \cup SeqsUpTo(Blocks, MaxBlocks)

\* metadata.len(), around the limit; the model takes the size of a file
\* apart from its lines, as nothing but the test of metrics.rs:244 and the
\* byte totals read it
FileSizes == {SizeLimit - 1, SizeLimit, SizeLimit + 1}

InitFile ==
    /\ pc = "classify"
    /\ lang \in Extensions
    /\ size \in FileSizes
    /\ lines \in Contents
    /\ seen = 0
    /\ counters = ScanStart
    /\ fmetrics = <<>>
    /\ file_imports = <<>>
    /\ LinkIdle
    /\ MainIdle

\* the loop body over the next block of lines (metrics.rs:141-224)
ClassifyNext ==
    /\ pc = "classify"
    /\ seen < Len(lines)
    /\ seen' = seen + 1
    /\ counters' = ClassifyBlock(counters, ClassFacts(lines[seen + 1].line, lang),
                                 lang, lines[seen + 1].k)
    /\ UNCHANGED <<pc, lang, size, lines, fmetrics, file_imports>>

\* the loop is over: the basic FileMetrics (metrics.rs:226-241)
BuildMetrics ==
    /\ pc = "classify"
    /\ seen = Len(lines)
    /\ fmetrics' = <<BasicMetrics(FileA, size, lines, counters)>>
    /\ pc' = "built"
    /\ UNCHANGED <<lang, size, lines, seen, counters, file_imports>>

\* the complexity part, or nothing for a file too large (metrics.rs:243-260)
Complexity ==
    /\ pc = "built"
    /\ fmetrics' = <<AddComplexity(fmetrics[1], lang, lines)>>
    /\ pc' = "analyzed"
    /\ UNCHANGED <<lang, size, lines, seen, counters, file_imports>>

NextFile ==
    \/ (ClassifyNext /\ UNCHANGED <<linkVars, mainVars>>)
    \/ (BuildMetrics /\ UNCHANGED <<linkVars, mainVars>>)
    \/ (Complexity /\ UNCHANGED <<linkVars, mainVars>>)

SpecFile == InitFile /\ [][NextFile]_vars

----------------------------------------------------------------------------
(* analyze_repository (metrics.rs:264-381) and the metrics phase of main   *)
(* (main.rs:92-177)                                                        *)

\* the files of the run of main, in the order of filtered_files
MainFiles == {FileA, FileB}

file_paths == <<FileA, FileB>>

\* Path::extension of the paths of the model
ExtensionOf(path) ==
    IF path = FileA THEN "rs" ELSE IF path = FileB THEN "js" ELSE "py"

\* what the reads of the run find of one file: a read that fails
\* (exports.rs:67-73, metrics.rs:120-124), or the size, the lines, the names
\* the export patterns find in them and the names the import patterns find
Unreadable ==
    [readable |-> FALSE, file_size |-> 0, content |-> <<>>,
     exported |-> <<>>, imported |-> <<>>]

\* the size and the lines of a file that can be read: the empty file, a file
\* of one line, two of 16 lines, the second with a size at the limit
MainInputs ==
    {[file_size |-> 0, content |-> <<>>],
     [file_size |-> 6, content |-> <<[line |-> Line9, k |-> 0]>>],
     [file_size |-> 176, content |-> <<[line |-> Line8, k |-> 4]>>],
     [file_size |-> SizeLimit, content |-> <<[line |-> Line8, k |-> 4]>>]}

\* the size and the lines of a file of the run
Input(d) == [file_size |-> d.file_size, content |-> d.content]

\* the names found in the files, MaxEntities exported and MaxRefs imported
\* ones at most
NamesIn(files, n) ==
    {x \in [files -> {<<>>} \cup SeqsUpTo(Names, n)] : KeyLen(x) <= n}

\* every state of the files of the run
Disks ==
    {[f \in MainFiles |->
         IF f \in unreadable THEN Unreadable
         ELSE [readable |-> TRUE,
               file_size |-> input[f].file_size, content |-> input[f].content,
               exported |-> exported[f], imported |-> imported[f]]] :
        unreadable \in SUBSET MainFiles,
        input \in [MainFiles -> MainInputs],
        exported \in NamesIn(MainFiles, MaxEntities),
        imported \in NamesIn(MainFiles, MaxRefs)}

\* analyze_file of every input, worked out once
Analyzed ==
    [e \in {"rs", "js"} |->
        [i \in MainInputs |-> analyze_file(<<>>, e, i.file_size, i.content)]]

\* the Ok arm of the loop of analyze_repository (metrics.rs:281-308)
AddFile(repo, file_path, fm) ==
    LET extension == ExtensionOf(file_path)
        complexity == fm.complexity_metrics
    IN [repo EXCEPT
        !.total_lines = @ + fm.line_count,
        !.total_code_lines = @ + fm.code_lines,
        !.total_comment_lines = @ + fm.comment_lines,
        !.total_blank_lines = @ + fm.blank_lines,
        !.total_size_bytes = @ + fm.file_size_bytes,
        !.language_distribution =
            IF extension \in DOMAIN @
            THEN [@ EXCEPT ![extension] = @ + 1]
            ELSE @ @@ (extension :> 1),
        !.total_cyclomatic_complexity =
            IF complexity.some THEN @ + complexity.cyclomatic_complexity ELSE @,
        !.total_cognitive_complexity =
            IF complexity.some THEN @ + complexity.cognitive_complexity ELSE @,
        !.total_maintainability_index =
            IF complexity.some THEN @ + complexity.maintainability_index ELSE @,
        !.files_with_complexity = IF complexity.some THEN @ + 1 ELSE @,
        !.file_metrics =
            IF file_path \in DOMAIN @
            THEN [@ EXCEPT ![file_path] = fm]
            ELSE @ @@ (file_path :> fm)]

\* the averages of metrics.rs:315-353
Averages(repo) ==
    LET total_files == Cardinality(DOMAIN repo.file_metrics)
        commented == repo.total_code_lines + repo.total_comment_lines
        n == repo.files_with_complexity
    IN [repo EXCEPT
        !.total_files = total_files,
        !.avg_file_size =
            IF total_files > 0 THEN repo.total_size_bytes \div total_files ELSE 0,
        !.avg_lines_per_file =
            IF total_files > 0 THEN repo.total_lines \div total_files ELSE 0,
        !.avg_comment_ratio =
            IF commented > 0 THEN (repo.total_comment_lines * Scale) \div commented ELSE 0,
        !.avg_cyclomatic_complexity =
            IF n > 0 THEN (repo.total_cyclomatic_complexity * Scale) \div n ELSE 0,
        !.avg_cognitive_complexity =
            IF n > 0 THEN repo.total_cognitive_complexity \div n ELSE 0,
        !.avg_maintainability_index =
            IF n > 0 THEN repo.total_maintainability_index \div n ELSE 0]

\* partial_cmp of two f64, NaN comparing with nothing
Greater(a, b) == ~a.nan /\ ~b.nan /\ a.m > b.m

\* the list of (path, knowledge score) of every entry of file_metrics,
\* sorted by sort_by with b.partial_cmp(a): the sort is stable, over the
\* iteration order of the HashMap, which is any order
Hotspots(file_metrics) ==
    LET n == Cardinality(DOMAIN file_metrics)
        entry(p) == <<p, knowledge_score(file_metrics[p])>>
    IN {[i \in 1..n |-> entry(order[i])] :
            order \in {o \in [1..n -> DOMAIN file_metrics] :
                          /\ \A i \in 1..n : \A j \in 1..n : o[i] = o[j] => i = j
                          /\ \A i \in 1..n : \A j \in i..n :
                              ~Greater(knowledge_score(file_metrics[o[j]]),
                                       knowledge_score(file_metrics[o[i]]))}}

\* get_files_by_importance (dependencies.rs:32-43): the paths in one of the
\* orders a stable sort by descending score can leave them in
FilesByImportance(g) ==
    LET n == Cardinality(DOMAIN g.importance_scores) IN
    {o \in [1..n -> DOMAIN g.importance_scores] :
        /\ \A i \in 1..n : \A j \in 1..n : o[i] = o[j] => i = j
        /\ \A i \in 1..n : \A j \in i..n :
            g.importance_scores[o[i]] >= g.importance_scores[o[j]]}

RECURSIVE MaxOf(_)
MaxOf(S) ==
    LET x == CHOOSE y \in S : TRUE IN
    IF S = {x} THEN x ELSE Max(x, MaxOf(S \ {x}))

\* main.rs:131-136
max_importance(g) ==
    IF DOMAIN g.importance_scores = {} THEN 1
    ELSE MaxOf({g.importance_scores[f] : f \in DOMAIN g.importance_scores})

\* *importance as f64 / max_importance as f64 (main.rs:142); the maximum is
\* 0 only when every importance is 0, and 0.0 / 0.0 is NaN
Normalized(importance, max) ==
    IF max = 0 THEN NaN ELSE F((importance * Scale) \div max)

PatchFileFresh(fm, importance, max) ==
    [with_export_importance(fm, SomeOf(Normalized(importance, max)))
        EXCEPT !.complexity_metrics = NoComplexity]

PatchFileNoRecompute(fm, importance, max) ==
    with_export_importance(fm, SomeOf(Normalized(importance, max)))

\* the body of the patch loop for one file with metrics (main.rs:141-153)
PatchFile(fm, importance, max) ==
    LET patched == with_export_importance(fm, SomeOf(Normalized(importance, max))) IN
    IF patched.complexity_metrics.some
    THEN [patched EXCEPT !.knowledge_score =
             SomeOf(calculate_knowledge_score(patched, patched.complexity_metrics))]
    ELSE patched

\* imports_map.entry(import.name).or_default().push(import), for the
\* imports of one file (exports.rs:91-96)
RECURSIVE StoreImports(_, _, _, _)
StoreImports(imports_map, names, i, f) ==
    IF i > Len(names) THEN imports_map
    ELSE LET import == [name |-> names[i], file_path |-> f, line_number |-> i] IN
         StoreImports(
             IF import.name \in DOMAIN imports_map
             THEN [imports_map EXCEPT ![import.name] = Append(@, import)]
             ELSE imports_map @@ (import.name :> <<import>>),
             names, i + 1, f)

\* one pass of the loop of scan_repository (exports.rs:59-102); every file
\* of the model has the extension of a configured language
ScanFile(maps, f, d) ==
    IF ~d.readable THEN maps
    ELSE [exports |->
              IF d.exported # <<>>
              THEN IF f \in DOMAIN maps.exports
                   THEN [maps.exports EXCEPT ![f] = Entities(d.exported, f)]
                   ELSE maps.exports @@ (f :> Entities(d.exported, f))
              ELSE maps.exports,
          imports |-> StoreImports(maps.imports, d.imported, 1, f)]

RECURSIVE ScanFiles(_, _, _, _)
ScanFiles(maps, files, i, d) ==
    IF i > Len(files) THEN maps
    ELSE ScanFiles(ScanFile(maps, files[i], d[files[i]]), files, i + 1, d)

\* scan_repository (exports.rs:53-109)
scan_repository(files, d) ==
    ScanFiles([exports |-> EmptyMap, imports |-> EmptyMap], files, 1, d)

AnalyzeResultDefault(repo, file_path, d) ==
    AddFile(repo, file_path,
            [Analyzed[ExtensionOf(file_path)][Input(d)] EXCEPT !.path = file_path])

\* the match on analyze_file in the loop of analyze_repository
\* (metrics.rs:280-312): the metrics are counted, or the file is skipped
\* with a warning
AnalyzeResult(repo, file_path, d) ==
    IF d.readable
    THEN AddFile(repo, file_path,
                 [Analyzed[ExtensionOf(file_path)][Input(d)] EXCEPT !.path = file_path])
    ELSE repo

InitMain ==
    /\ pc = "start"
    /\ disk \in Disks
    /\ exports = EmptyMap
    /\ imports = EmptyMap
    /\ graph = DependencyGraph_new
    /\ dir_scores = EmptyMap
    /\ namesLeft = {}
    /\ curName = NoName
    /\ filesLeft = {}
    /\ metrics = RepositoryStart
    /\ toAnalyze = <<>>
    /\ toPatch = <<>>
    /\ FileIdle

\* scan_repository, in one step (main.rs:93)
ScanRepository ==
    /\ pc = "start"
    /\ LET r == scan_repository(file_paths, disk) IN
        /\ exports' = r.exports
        /\ imports' = r.imports
    /\ pc' = "scanned"
    /\ UNCHANGED <<graph, dir_scores, namesLeft, curName, filesLeft>>

\* build_dependency_graph, in one step (main.rs:105)
BuildGraph ==
    /\ pc = "scanned"
    /\ LET r == FixedOrderRun(exports, imports) IN
        /\ exports' = r.exports
        /\ graph' = r.graph
    /\ pc' = "linked"
    /\ UNCHANGED <<imports, dir_scores, namesLeft, curName, filesLeft>>

\* analyze_repository is called with the paths of filtered_files
\* (main.rs:118-127, metrics.rs:264-275)
StartAnalysis ==
    /\ pc = "dirs"
    /\ toAnalyze' = file_paths
    /\ metrics' = RepositoryStart
    /\ pc' = "analyze"
    /\ UNCHANGED <<toPatch, disk>>

\* one pass of the loop of analyze_repository (metrics.rs:277-313): the file
\* is analysed, or its read fails and it is skipped
AnalyzeNext ==
    /\ pc = "analyze"
    /\ toAnalyze # <<>>
    /\ metrics' = AnalyzeResult(metrics, Head(toAnalyze), disk[Head(toAnalyze)])
    /\ toAnalyze' = Tail(toAnalyze)
    /\ UNCHANGED <<pc, toPatch, disk>>

\* the loop is over: the averages and the first hotspot list
\* (metrics.rs:315-380)
FinishAnalysis ==
    /\ pc = "analyze"
    /\ toAnalyze = <<>>
    /\ \E hotspots \in Hotspots(metrics.file_metrics) :
        metrics' = [Averages(metrics) EXCEPT !.knowledge_hotspots = hotspots]
    /\ pc' = "analyzed"
    /\ UNCHANGED <<toAnalyze, toPatch, disk>>

\* the patch loop starts over get_files_by_importance (main.rs:139)
StartPatch ==
    /\ pc = "analyzed"
    /\ toPatch' \in FilesByImportance(graph)
    /\ pc' = "patch"
    /\ UNCHANGED <<metrics, toAnalyze, disk>>

\* one pass of the patch loop (main.rs:139-155)
PatchNext ==
    /\ pc = "patch"
    /\ toPatch # <<>>
    /\ LET file_path == Head(toPatch) IN
        metrics' =
            IF file_path \in DOMAIN metrics.file_metrics
            THEN [metrics EXCEPT !.file_metrics[file_path] =
                     PatchFile(@, graph.importance_scores[file_path], max_importance(graph))]
            ELSE metrics
    /\ toPatch' = Tail(toPatch)
    /\ UNCHANGED <<pc, toAnalyze, disk>>

\* the hotspot list is rebuilt from the patched scores (main.rs:157-166)
RebuildHotspots ==
    /\ pc = "patch"
    /\ toPatch = <<>>
    /\ \E hotspots \in Hotspots(metrics.file_metrics) :
        metrics' = [metrics EXCEPT !.knowledge_hotspots = hotspots]
    /\ pc' = "end"
    /\ UNCHANGED <<toAnalyze, toPatch, disk>>

NextMain ==
    \/ (ScanRepository /\ UNCHANGED <<fileVars, mainVars>>)
    \/ (BuildGraph /\ UNCHANGED <<fileVars, mainVars>>)
    \/ (DirImportance /\ UNCHANGED <<fileVars, mainVars>>)
    \/ (StartAnalysis /\ UNCHANGED <<linkVars, fileVars>>)
    \/ (AnalyzeNext /\ UNCHANGED <<linkVars, fileVars>>)
    \/ (FinishAnalysis /\ UNCHANGED <<linkVars, fileVars>>)
    \/ (StartPatch /\ UNCHANGED <<linkVars, fileVars>>)
    \/ (PatchNext /\ UNCHANGED <<linkVars, fileVars>>)
    \/ (RebuildHotspots /\ UNCHANGED <<linkVars, fileVars>>)

SpecMain == InitMain /\ [][NextMain]_vars

----------------------------------------------------------------------------
(* extract_imports (exports.rs:157-327)                                    *)

\* the pieces of a sequence of sequences, one after the other
RECURSIVE Flatten(_)
Flatten(ss) == IF ss = <<>> THEN <<>> ELSE Head(ss) \o Flatten(Tail(ss))

\* str::split(sep) from position pos, the empty pieces kept
RECURSIVE Split(_, _, _)
Split(s, sep, pos) ==
    LET idx == Find(s, sep, pos) IN
    IF idx = 0 THEN <<SubSeq(s, pos, Len(s))>>
    ELSE <<SubSeq(s, pos, idx - 1)>> \o Split(s, sep, idx + Len(sep))

\* the pieces between the commas of a text, trimmed, the empty ones left
\* out (exports.rs:196-199, 270-272, 296-298)
Items(text) ==
    LET parts == Split(text, <<",">>, 1) IN
    SelectSeq([i \in 1..Len(parts) |-> Trim(parts[i])], LAMBDA item : item # <<>>)

\* Regex `keyword\s+([^;]+);` (exports.rs:224; the import patterns of the
\* configuration of the model have this shape): the capture groups 1 of
\* its matches in s from position pos, from the left.  A match at a keyword
\* needs white space after it and a `;` further on; the white space is
\* taken whole unless the `;` follows it at once, and then its last
\* character is the capture
RECURSIVE Captures(_, _, _)
Captures(s, keyword, pos) ==
    LET q == pos + Len(keyword) IN
    IF q > Len(s) THEN <<>>
    ELSE LET rest == SubSeq(s, q, Len(s))
             w == q + Len(rest) - Len(TrimStart(rest))
             e == Find(s, <<";">>, q)
         IN IF MatchAt(s, keyword, pos) /\ w > q /\ e # 0 /\ (w < e \/ w - q >= 2)
            THEN <<SubSeq(s, IF w < e THEN w ELSE w - 1, e - 1)>>
                 \o Captures(s, keyword, e + 1)
            ELSE Captures(s, keyword, pos + 1)

\* Regex `\{([^}]+)\}` (exports.rs:265, 291): the capture group 1 of its
\* first match in t from position pos, as <<capture>>, or <<>>
RECURSIVE BraceGroup(_, _)
BraceGroup(t, pos) ==
    LET b == Find(t, <<"{">>, pos)
        c == IF b = 0 THEN 0 ELSE Find(t, <<"}">>, b + 1)
    IN IF b = 0 \/ c = 0 THEN <<>>
       ELSE IF c >= b + 2 THEN <<SubSeq(t, b + 1, c - 1)>>
       ELSE BraceGroup(t, b + 1)

\* the names parse_rust_import_path pushes for one import path
\* (exports.rs:249-327); import_path[6..] starts at the seventh character
parse_rust_import_path(import_path) ==
    LET braces(t) == Contains(t, <<"{">>) /\ Contains(t, <<"}">>)
        items(t) == LET g == BraceGroup(t, 1) IN
                    IF g = <<>> THEN <<>> ELSE Items(g[1])
    IN IF StartsWith(import_path, <<"c", "r", "a", "t", "e", ":", ":">>)
       THEN LET path_parts == Split(SubSeq(import_path, 6 + 1, Len(import_path)),
                                    <<":", ":">>, 1)
                last_part == path_parts[Len(path_parts)]
            IN IF braces(last_part) THEN items(last_part) ELSE <<last_part>>
       ELSE IF braces(import_path) THEN items(import_path)
       ELSE LET parts == Split(import_path, <<":", ":">>, 1) IN
            <<parts[Len(parts)]>>

\* extract_rust_imports (exports.rs:218-246): the first `use ...;` of every
\* line that is no `//` comment
extract_rust_imports(file_path, content) ==
    Flatten([i \in 1..Len(content) |->
        LET line == Trim(content[i].line)
            caps == IF StartsWith(line, <<"/", "/">>) THEN <<>>
                    ELSE Captures(line, <<"u", "s", "e">>, 1)
            names == IF caps = <<>> THEN <<>>
                     ELSE parse_rust_import_path(Trim(caps[1]))
        IN [n \in 1..Len(names) |->
               [name |-> names[n], file_path |-> file_path, line_number |-> i,
                import_statement |-> line]]])

\* the fallback of extract_imports (exports.rs:171-212): every match of
\* every pattern in every line, its capture group 1 split at the commas
generic_imports(file_path, content, patterns) ==
    Flatten([i \in 1..Len(content) |->
        LET line == content[i].line
            names == Flatten([p \in 1..Len(patterns) |->
                         LET caps == Captures(line, patterns[p], 1) IN
                         Flatten([c \in 1..Len(caps) |-> Items(Trim(caps[c]))])])
        IN [n \in 1..Len(names) |->
               [name |-> names[n], file_path |-> file_path, line_number |-> i,
                import_statement |-> Trim(line)]]])

extract_imports_no_return(file_path, content, patterns) ==
    (IF ExtensionOf(file_path) = "rs"
     THEN extract_rust_imports(file_path, content) ELSE <<>>)
    \o generic_imports(file_path, content, patterns)

\* extract_imports (exports.rs:158-215)
extract_imports(file_path, content, patterns) ==
    LET imports_found == IF ExtensionOf(file_path) = "rs"
                         THEN extract_rust_imports(file_path, content)
                         ELSE <<>>
    IN IF imports_found # <<>> THEN imports_found
       ELSE generic_imports(file_path, content, patterns)

\* lang_config.import_patterns of the configuration of the model, each
\* pattern `keyword\s+([^;]+);` given by its keyword: `use` and `mod` for
\* .rs files, `import` for the other ones
import_patterns(extension) ==
    IF extension = "rs" THEN <<<<"u", "s", "e">>, <<"m", "o", "d">>>> ELSE <<<<"i", "m", "p", "o", "r", "t">>>>

\* the lines of the files of the model
ImportLines ==
    {<<"u", "s", "e", " ", "c", "r", "a", "t", "e", ":", ":", "f", "o", "o", ";">>,
     <<"u", "s", "e", " ", "c", "r", "a", "t", "e", ":", ":", "m", ":", ":", "b", "a", "r", ";">>,
     <<"u", "s", "e", " ", "c", "r", "a", "t", "e", ":", ":", "m", ":", ":", "{", "f", "o", "o", ",", " ", "b", "a", "r", "}", ";">>,
     <<"u", "s", "e", " ", "s", "t", "d", ":", ":", "f", "o", "o", ";">>,
     <<"/", "/", " ", "u", "s", "e", " ", "c", "r", "a", "t", "e", ":", ":", "f", "o", "o", ";">>,
     <<" ", " ", "m", "o", "d", " ", "b", "a", "r", ";">>,
     <<"i", "m", "p", "o", "r", "t", " ", "f", "o", "o", ",", " ", "b", "a", "r", ";">>,
     <<"x", " ", "=", " ", "1", ";">>}

\* the file of one run of extract_imports: a file of each language, with
\* MaxBlocks lines at most
InitImport ==
    /\ pc = "extract"
    /\ lang \in Extensions
    /\ size = 0
    /\ lines \in {<<>>} \cup SeqsUpTo({[line |-> l, k |-> 0] : l \in ImportLines},
                                     MaxBlocks)
    /\ seen = 0
    /\ counters = <<>>
    /\ fmetrics = <<>>
    /\ file_imports = <<>>
    /\ LinkIdle
    /\ MainIdle

\* scan_repository extracts the imports of the file (exports.rs:87-88)
ExtractImports ==
    /\ pc = "extract"
    /\ \E file_path \in Files :
        /\ ExtensionOf(file_path) = lang
        /\ file_imports' = extract_imports(file_path, lines, import_patterns(lang))
    /\ pc' = "extracted"
    /\ UNCHANGED <<lang, size, lines, seen, counters, fmetrics>>

NextImport ==
    \/ (ExtractImports /\ UNCHANGED <<linkVars, mainVars>>)

SpecImport == InitImport /\ [][NextImport]_vars

----------------------------------------------------------------------------
(* Properties of the linking run *)

Linked == pc \in {"linked", "dirs"}

ExportNames(f) == {exports[f][i].name : i \in 1..Len(exports[f])}

\* the import references of the corpus, as (name, index) pairs
AllRefs == UNION {{<<n, i>> : i \in 1..Len(imports[n])} : n \in DOMAIN imports}

RefCount(n) == IF n \in DOMAIN imports THEN Len(imports[n]) ELSE 0

RECURSIVE SumRefCount(_, _)
SumRefCount(es, i) ==
    IF i > Len(es) THEN 0 ELSE RefCount(es[i].name) + SumRefCount(es, i + 1)

RECURSIVE SumImportance(_, _)
SumImportance(g, S) ==
    IF S = {} THEN 0
    ELSE LET f == CHOOSE x \in S : TRUE IN
         get_file_importance(g, f) + SumImportance(g, S \ {f})

\* the proper ancestors of a path, the empty path left out
Ancestors(p) == {SubSeq(p, 1, k) : k \in 1..(Len(p) - 1)}

\* C1: after build_dependency_graph the forward and the reverse adjacency
\* mirror each other: B is a dependency of A iff A is a dependent of B
C1_Mirror ==
    Linked =>
        \A a \in Files : \A b \in Files :
            (b \in get_dependencies(graph, a)) <=> (a \in get_dependent_files(graph, b))

C1_Witness ==
    /\ Linked
    /\ \E a \in Files : \E b \in Files :
        b \in get_dependencies(graph, a) /\ a \in get_dependent_files(graph, b)

\* C2: after linking no file is its own dependency or its own dependent,
\* also when it exports and imports the same name
C2_NoSelfEdge ==
    Linked =>
        \A f \in Files :
            f \notin get_dependencies(graph, f) /\ f \notin get_dependent_files(graph, f)

C2_Witness ==
    /\ Linked
    /\ \E f \in DOMAIN exports : \E r \in AllRefs :
        /\ imports[r[1]][r[2]].file_path = f
        /\ r[1] \in ExportNames(f)
        /\ f \notin get_dependencies(graph, f)

\* C3 as stated: the usage counts of a file's exports sum to the number of
\* import references whose name is one of the file's export names, minus
\* those of them located in the file itself
C3_Original ==
    Linked =>
        \A f \in DOMAIN exports :
            SumUsage(exports[f], 1) =
                Cardinality({r \in AllRefs : r[1] \in ExportNames(f)})
                - Cardinality({r \in AllRefs :
                                  r[1] \in ExportNames(f) /\ imports[r[1]][r[2]].file_path = f})

\* C3 amended: the usage counts of a file's exports sum to the sum, over the
\* file's exported entities, of the number of import references of the
\* entity's name; references located in the file itself count as well
C3_UsageSum ==
    Linked =>
        \A f \in DOMAIN exports :
            SumUsage(exports[f], 1) = SumRefCount(exports[f], 1)

C3_Witness ==
    /\ Linked
    /\ \E f \in DOMAIN exports : \E r \in AllRefs :
        /\ imports[r[1]][r[2]].file_path = f
        /\ r[1] \in ExportNames(f)
        /\ SumUsage(exports[f], 1) = Len(imports[r[1]])
        /\ SumUsage(exports[f], 1) > 0

\* C4: linking resolves by name alone: an entity whose name has k import
\* references ends with usage_count k, whatever file it is in, and an entity
\* whose name is imported nowhere keeps usage_count 0
C4_ByName ==
    Linked =>
        \A f \in DOMAIN exports : \A i \in 1..Len(exports[f]) :
            exports[f][i].usage_count = RefCount(exports[f][i].name)

C4_Witness ==
    /\ Linked
    /\ \E f \in DOMAIN exports : \E i \in 1..Len(exports[f]) :
        exports[f][i].usage_count = 2
    /\ \E f \in DOMAIN exports : \E i \in 1..Len(exports[f]) :
        exports[f][i].name \notin DOMAIN imports /\ exports[f][i].usage_count = 0

\* the corpus of the example: X exports foo alone, Y alone imports foo, once
ExampleCorpus(x, y) ==
    /\ DOMAIN exports = {x}
    /\ Len(exports[x]) = 1
    /\ exports[x][1].name = "foo"
    /\ DOMAIN imports = {"foo"}
    /\ Len(imports["foo"]) = 1
    /\ imports["foo"][1].file_path = y

\* C5: after linking A -> B is a forward edge exactly when A differs from B
\* and a reference located in A names an entity exported by B; when X
\* exports foo and another file Y imports foo once, usage_count(foo) is 1,
\* Y -> X is an edge and the dependents of X are exactly Y
C5_Edges ==
    Linked =>
        /\ \A a \in Files : \A b \in Files :
            (b \in get_dependencies(graph, a)) <=>
                /\ a # b
                /\ b \in DOMAIN exports
                /\ \E r \in AllRefs :
                    imports[r[1]][r[2]].file_path = a /\ r[1] \in ExportNames(b)
        /\ \A x \in Files : \A y \in Files \ {x} :
            ExampleCorpus(x, y) =>
                /\ exports[x][1].usage_count = 1
                /\ x \in get_dependencies(graph, y)
                /\ get_dependent_files(graph, x) = {y}

C5_Witness ==
    /\ Linked
    /\ ExampleCorpus(FileA, FileB)
    /\ get_dependent_files(graph, FileA) = {FileB}

\* the corpus before linking: every usage_count at 0 (exports.rs:146)
Unlinked(exports_map) ==
    [f \in DOMAIN exports_map |->
        [i \in 1..Len(exports_map[f]) |-> [exports_map[f][i] EXCEPT !.usage_count = 0]]]

\* C6: the result of linking does not depend on the order in which the names
\* and the files are visited: whatever order the run took, the usage counts,
\* both edge sets and the importance scores are those of the fixed-order run
C6_OrderIndependent ==
    Linked =>
        LET r == FixedOrderRun(Unlinked(exports), imports) IN
        /\ exports = r.exports
        /\ graph = r.graph

\* a corpus in which the order could matter: a name exported by two files
C6_Witness ==
    /\ Linked
    /\ \E f \in DOMAIN exports : \E g \in DOMAIN exports \ {f} :
        \E n \in DOMAIN imports : n \in ExportNames(f) /\ n \in ExportNames(g)
    /\ DOMAIN graph.file_dependencies # {}

\* C7: the importance of a file that owns exports is the sum of the usage
\* counts of its exports plus twice the number of its dependents; the
\* importance of any other file is 0
C7_Importance ==
    Linked =>
        \A f \in Files :
            get_file_importance(graph, f) =
                IF f \in DOMAIN exports
                THEN SumUsage(exports[f], 1) + 2 * Cardinality(get_dependent_files(graph, f))
                ELSE 0

C7_Witness ==
    /\ Linked
    /\ \E f \in DOMAIN exports :
        /\ Cardinality(get_dependent_files(graph, f)) = 2
        /\ get_file_importance(graph, f) = SumUsage(exports[f], 1) + 4
    /\ \E f \in Files \ DOMAIN exports : get_file_importance(graph, f) = 0

\* C8: every directory that is a proper ancestor of an exporting file has
\* as score the sum of the whole importance of every exporting file below
\* it, no other directory has a score, and for a corpus of one file with one
\* ancestor directory that directory's score is the file's importance
C8_DirImportance ==
    pc = "dirs" =>
        /\ DOMAIN dir_scores = UNION {Ancestors(f) : f \in DOMAIN exports}
        /\ \A d \in DOMAIN dir_scores :
            dir_scores[d] =
                SumImportance(graph, {f \in DOMAIN exports : d \in Ancestors(f)})
        /\ \A f \in DOMAIN exports :
            (DOMAIN exports = {f} /\ Cardinality(Ancestors(f)) = 1) =>
                \A d \in Ancestors(f) : dir_scores[d] = get_file_importance(graph, f)

C8_Witness ==
    /\ pc = "dirs"
    /\ DOMAIN exports = {FileA}
    /\ get_file_importance(graph, FileA) > 0
    /\ dir_scores[<<"r">>] = get_file_importance(graph, FileA)

\* C30: directory importance is monotone along the directory tree: of two
\* directories with a score the proper ancestor has a score at least that
\* of the other, and every directory with a score is a proper ancestor of
\* a file that owns exports
C30_DirMonotone ==
    pc = "dirs" =>
        /\ \A d, e \in DOMAIN dir_scores :
               d \in Ancestors(e) => dir_scores[d] >= dir_scores[e]
        /\ \A d \in DOMAIN dir_scores :
               \E f \in DOMAIN exports : d \in Ancestors(f) /\ exports[f] # <<>>

\* two nested directories have scores, the inner one a positive score and
\* the outer one a greater score
C30_Witness ==
    /\ pc = "dirs"
    /\ {<<"r">>, <<"r", "s">>} \subseteq DOMAIN dir_scores
    /\ dir_scores[<<"r", "s">>] > 0
    /\ dir_scores[<<"r">>] > dir_scores[<<"r", "s">>]

\* an entity but for its usage count
Identity(e) == [e EXCEPT !.usage_count = 0]

\* C26: build_dependency_graph changes nothing but usage counts: no step
\* of the linking changes the imports map, adds or removes an exported
\* entity, or changes the name, file, line or kind of one, and no usage
\* count ever decreases
C26_OnlyUsageCounts ==
    [][pc = "link" =>
          /\ imports' = imports
          /\ DOMAIN exports' = DOMAIN exports
          /\ \A f \in DOMAIN exports :
                 /\ Len(exports'[f]) = Len(exports[f])
                 /\ \A i \in 1..Len(exports[f]) :
                        /\ Identity(exports'[f][i]) = Identity(exports[f][i])
                        /\ exports'[f][i].usage_count >= exports[f][i].usage_count]_vars

\* the linking is over for a file with an entity that was counted and an
\* entity of another name that was not
C26_Witness ==
    /\ Linked
    /\ \E f \in DOMAIN exports : \E i, j \in 1..Len(exports[f]) :
        /\ exports[f][i].usage_count > 0
        /\ exports[f][j].usage_count = 0
        /\ exports[f][j].export_type = "function"

----------------------------------------------------------------------------
(* Properties of the scores                                                *)

\* an f64 that is a number of [0, 100]
InRange(x) == ~x.nan /\ 0 <= x.m /\ x.m <= 100 * Scale

\* C9: at every stage of the metrics phase of main, from the first scoring
\* pass to the importance patch and the recomputation, the knowledge score
\* of every file lies in [0, 100], as stored, as returned by
\* FileMetrics::knowledge_score and as listed among the hotspots
C9_ScoreInRange ==
    /\ \A f \in DOMAIN metrics.file_metrics :
        LET fm == metrics.file_metrics[f] IN
        /\ fm.knowledge_score.some =>
               InRange([nan |-> fm.knowledge_score.nan, m |-> fm.knowledge_score.m])
        /\ InRange(knowledge_score(fm))
    /\ \A i \in 1..Len(metrics.knowledge_hotspots) :
        InRange(metrics.knowledge_hotspots[i][2])

\* the patch loop is over and a file had its score recomputed with an export
\* importance that is NaN
C9_Witness ==
    /\ pc = "end"
    /\ \E f \in DOMAIN metrics.file_metrics :
        LET fm == metrics.file_metrics[f] IN
        /\ fm.complexity_metrics.some
        /\ fm.export_importance.some
        /\ fm.export_importance.nan
        /\ knowledge_score(fm) = F(100 * Scale)

\* C10: the maintainability index of analyze_file_complexity lies in
\* [0, 100], and is 100 when the content has no line or its Halstead volume
\* is 0
C10_Maintainability ==
    (pc = "analyzed" /\ fmetrics[1].complexity_metrics.some) =>
        LET complexity == fmetrics[1].complexity_metrics IN
        /\ 0 <= complexity.maintainability_index
        /\ complexity.maintainability_index <= 100 * Scale
        /\ (LineCount(lines) = 0 \/ complexity.halstead_volume = 0) =>
               complexity.maintainability_index = 100 * Scale

\* a content with lines and no Halstead volume has been analysed
C10_Witness ==
    /\ pc = "analyzed"
    /\ fmetrics[1].complexity_metrics.some
    /\ LineCount(lines) > 0
    /\ fmetrics[1].complexity_metrics.halstead_volume = 0
    /\ fmetrics[1].complexity_metrics.maintainability_index = 100 * Scale

\* the files the patch loop has been through
Patched ==
    IF pc = "end" THEN DOMAIN graph.importance_scores
    ELSE IF pc = "patch"
    THEN DOMAIN graph.importance_scores \ {toPatch[i] : i \in 1..Len(toPatch)}
    ELSE {}

\* C11: the export importance patched onto the metrics of a file is the
\* importance of the file divided by the maximum importance over all files,
\* it is 0 for every file when that maximum is 0, and it is always a number
\* of [0, 1]
C11_PatchedImportance ==
    \A f \in Patched \cap DOMAIN metrics.file_metrics :
        LET importance == metrics.file_metrics[f].export_importance
            max == max_importance(graph)
        IN /\ importance.some
           /\ ~importance.nan
           /\ 0 <= importance.m /\ importance.m <= Scale
           /\ importance.m =
                  IF max = 0 THEN 0
                  ELSE (graph.importance_scores[f] * Scale) \div max

\* the hotspot list holds one entry for every file of file_metrics, with the
\* score FileMetrics::knowledge_score returns for it now
HotspotsCurrent ==
    /\ Len(metrics.knowledge_hotspots) = Cardinality(DOMAIN metrics.file_metrics)
    /\ {metrics.knowledge_hotspots[i] : i \in 1..Len(metrics.knowledge_hotspots)}
           = {<<f, knowledge_score(metrics.file_metrics[f])>> :
                 f \in DOMAIN metrics.file_metrics}

InputIndex(f) == CHOOSE i \in 1..Len(file_paths) : file_paths[i] = f

\* C13: the final hotspot list holds every analysed file once, in the order
\* of non-increasing knowledge score, files of equal score in the order of
\* the input list
C13_HotspotOrder ==
    pc = "end" =>
        LET list == metrics.knowledge_hotspots IN
        /\ Len(list) = Cardinality(DOMAIN metrics.file_metrics)
        /\ {list[i][1] : i \in 1..Len(list)} = DOMAIN metrics.file_metrics
        /\ \A i \in 1..Len(list) : \A j \in i + 1..Len(list) :
               /\ list[i][2].m >= list[j][2].m
               /\ list[i][2].m = list[j][2].m =>
                      InputIndex(list[i][1]) < InputIndex(list[j][1])

\* complexity data that leaves the complexity factor and the
\* maintainability factor of the knowledge score at 0
NoContribution ==
    [some |-> TRUE,
     cyclomatic_complexity |-> 0,
     max_nesting_depth |-> 0,
     cognitive_complexity |-> 0,
     halstead_volume |-> 0,
     halstead_difficulty |-> 0,
     maintainability_index |-> 100 * Scale]

\* C14: the knowledge score of a file without ComplexityMetrics is the
\* formula with the complexity factor and the maintainability factor at 0:
\* the size, function, declaration and export factors still count, and the
\* file is in the metrics as any other
C14_MissingComplexity ==
    \A f \in DOMAIN metrics.file_metrics :
        LET fm == metrics.file_metrics[f] IN
        ~fm.complexity_metrics.some =>
            knowledge_score(fm) = calculate_knowledge_score(fm, NoContribution)

\* the input list without the files whose read fails
ReadablePaths ==
    LET CanRead(f) == disk[f].readable IN SelectSeq(file_paths, CanRead)

\* the loop of analyze_repository over a list of files
RECURSIVE AnalyzeAll(_, _, _)
AnalyzeAll(repo, files, i) ==
    IF i > Len(files) THEN repo
    ELSE AnalyzeAll(AnalyzeResult(repo, files[i], disk[files[i]]), files, i + 1)

\* C16: a file whose read fails does not stop the run and leaves nothing in
\* the export map, the import map, the per-file metrics and the repository
\* totals and averages: these are what the run over the input list without
\* the file yields
C16_UnreadableSkipped ==
    /\ pc # "start" =>
           /\ \A f \in MainFiles :
                  ~disk[f].readable =>
                      /\ f \notin DOMAIN exports
                      /\ \A n \in DOMAIN imports : \A i \in 1..Len(imports[n]) :
                             imports[n][i].file_path # f
           /\ Unlinked(exports) = scan_repository(ReadablePaths, disk).exports
           /\ imports = scan_repository(ReadablePaths, disk).imports
    /\ pc \in {"analyzed", "patch", "end"} =>
           /\ \A f \in MainFiles :
                  ~disk[f].readable => f \notin DOMAIN metrics.file_metrics
           /\ metrics.total_files = Len(ReadablePaths)
    /\ pc = "analyzed" =>
           [metrics EXCEPT !.knowledge_hotspots = <<>>]
               = Averages(AnalyzeAll(RepositoryStart, ReadablePaths, 1))

\* the first pass is over for a file that is read and one whose read fails
C16_Witness ==
    /\ pc = "analyzed"
    /\ \E f \in MainFiles : \E g \in MainFiles :
        /\ ~disk[f].readable
        /\ g \in DOMAIN metrics.file_metrics
        /\ g \in DOMAIN exports
        /\ disk[g].imported # <<>>

\* a FileMetrics but for its export importance and its knowledge score
Unpatched(fm) == [fm EXCEPT !.export_importance = NoneF, !.knowledge_score = NoneF]

\* C27: the patch step changes only export_importance and knowledge_score
\* of the metrics of a file: the ComplexityMetrics, the line, code, comment
\* and blank counts, the function count and the declaration histogram stay
\* as the first pass left them, no file enters or leaves file_metrics, and
\* the metrics of a file absent from the importance table do not change
C27_PatchFrame ==
    [][(pc = "analyzed" \/ pc = "patch") =>
          LET before == metrics.file_metrics
              after == metrics'.file_metrics
          IN /\ DOMAIN after = DOMAIN before
             /\ \A f \in DOMAIN before :
                    /\ Unpatched(after[f]) = Unpatched(before[f])
                    /\ f \in DOMAIN graph.importance_scores \/ after[f] = before[f]]_vars

\* the patch loop is over: it gave an export importance to a file with
\* ComplexityMetrics, and there is a file with metrics that is absent from
\* the importance table
C27_Witness ==
    /\ pc = "end"
    /\ \E f \in DOMAIN metrics.file_metrics \cap DOMAIN graph.importance_scores :
        /\ metrics.file_metrics[f].export_importance.some
        /\ metrics.file_metrics[f].complexity_metrics.some
        /\ metrics.file_metrics[f].line_count > 0
    /\ \E f \in DOMAIN metrics.file_metrics : f \notin DOMAIN graph.importance_scores

\* the knowledge score the first pass gave a file with metrics
FirstPassScore(f) ==
    knowledge_score(Analyzed[ExtensionOf(f)][Input(disk[f])])

\* C29: the second pass never lowers a score: at the end of the run the
\* knowledge score of every file is a number not below its first-pass
\* score, and it is the first-pass score for every file whose importance is
\* 0 or that owns no exports
C29_NeverLowered ==
    pc = "end" =>
        \A f \in DOMAIN metrics.file_metrics :
            LET first == FirstPassScore(f)
                second == knowledge_score(metrics.file_metrics[f])
            IN /\ ~second.nan
               /\ second.m >= first.m
               /\ (f \notin DOMAIN graph.importance_scores
                      \/ graph.importance_scores[f] = 0) => second = first

----------------------------------------------------------------------------
(* Properties of the analysis of one file                                  *)

\* C15: the complexity analysis is skipped exactly for the files whose size
\* exceeds the limit of 1 MiB; such a file still gets its FileMetrics, with
\* the line, code, comment and blank counts of its content
C15_SkippedWhenOversized ==
    pc = "analyzed" =>
        LET fm == fmetrics[1] IN
        /\ ~fm.complexity_metrics.some <=> size > SizeLimit
        /\ fm.line_count = LineCount(lines)
        /\ fm.code_lines = counters.code_lines
        /\ fm.comment_lines = counters.comment_lines
        /\ fm.blank_lines = counters.blank_lines
        /\ fm.file_size_bytes = size

\* the file of the example of the knowledge score has been analysed: one
\* line, cyclomatic complexity 1, cognitive complexity 0, maintainability
\* index 100, no function, no declaration, export importance 0
OneLineExample ==
    /\ pc = "analyzed"
    /\ fmetrics[1].complexity_metrics.some
    /\ fmetrics[1].line_count = 1
    /\ fmetrics[1].complexity_metrics.cyclomatic_complexity = 1
    /\ fmetrics[1].complexity_metrics.cognitive_complexity = 0
    /\ fmetrics[1].complexity_metrics.maintainability_index = 100 * Scale
    /\ fmetrics[1].function_count = 0
    /\ DOMAIN fmetrics[1].declaration_count = {}
    /\ export_importance(fmetrics[1]) = F(0)

\* C17 as stated: the knowledge score of the file of the example is
\* 0.85 x 2 = 1.7, the size factor 2 and nothing from any other factor
C17_Original ==
    OneLineExample =>
        /\ size_factor(fmetrics[1].line_count) = 2 * Scale
        /\ knowledge_score(fmetrics[1]) = F(1700)

\* C17: the knowledge score of the file of the example is 0.85 x 2.3 =
\* 1.955: the size factor is 2, the cyclomatic complexity of 1 puts
\* 15 x 1/50 = 0.3 into the complexity factor, every other factor is 0
C17_OneLineScore ==
    OneLineExample =>
        /\ size_factor(fmetrics[1].line_count) = 2 * Scale
        /\ knowledge_score(fmetrics[1]) = F(1955)

\* the one line `x = 1;` has been analysed as the file of the example
C17_Witness ==
    /\ OneLineExample
    /\ lines = <<[line |-> Line9, k |-> 0]>>

\* the .rs file of the two lines `fn a(){}` and `fn b(){ if true {} }`
TwoFunctions ==
    /\ lang = "rs"
    /\ lines = <<[line |-> Line1, k |-> 0], [line |-> Line2, k |-> 0]>>

\* C18: the analysis of the .rs file of the lines `fn a(){}` and
\* `fn b(){ if true {} }` yields function_count 2 and cyclomatic
\* complexity 2
C18_TwoFunctions ==
    (pc = "analyzed" /\ TwoFunctions) =>
        /\ fmetrics[1].function_count = 2
        /\ fmetrics[1].complexity_metrics.some =>
               fmetrics[1].complexity_metrics.cyclomatic_complexity = 2

\* that file has been analysed, complexity included
C18_Witness ==
    /\ pc = "analyzed"
    /\ TwoFunctions
    /\ fmetrics[1].complexity_metrics.some

\* one line more: x.scan is the state of the classification before the
\* line, x.count the number of the lines so far that are code lines, do not
\* end in `;` and contain a control-flow keyword of the language
BranchingStep(x, line, extension) ==
    LET next == ClassifyLine(x.scan, ClassFacts(line, extension), extension)
        adds == /\ next.code_lines > x.scan.code_lines
                /\ ~EndsWith(Trim(line), <<";">>)
                /\ BasicFacts(line, extension).branches
    IN [scan |-> next, count |-> IF adds THEN x.count + 1 ELSE x.count]

\* the same over the lines of a content; of the equal lines of a block all
\* but the first meet the same block-comment flag
RECURSIVE BranchingLines(_, _, _, _)
BranchingLines(x, content, i, extension) ==
    IF i > Len(content) THEN x.count
    ELSE LET one == BranchingStep(x, content[i].line, extension)
             two == BranchingStep(one, content[i].line, extension)
         IN BranchingLines(
                [scan |-> two.scan,
                 count |-> one.count + (Pow2(content[i].k) - 1) * (two.count - one.count)],
                content, i + 1, extension)

\* C19: the cyclomatic complexity of a file is 1 plus the number of its code
\* lines that do not end in a statement terminator and contain a
\* control-flow keyword of the language; comment lines and lines that end
\* in `;` add nothing
C19_Cyclomatic ==
    (pc = "analyzed" /\ fmetrics[1].complexity_metrics.some) =>
        fmetrics[1].complexity_metrics.cyclomatic_complexity
            = 1 + BranchingLines([scan |-> ScanStart, count |-> 0], lines, 1, lang)

\* the loop of analyze_file goes through one line of a .rs or .js file
OneLineStep ==
    /\ pc = "classify"
    /\ seen' = seen + 1
    /\ lang \in {"rs", "js"}
    /\ lines[seen + 1].k = 0

\* C20: in a file of a supported language every line met with the
\* block-comment flag set, an empty one included, is counted as a comment
\* line; the flag is cleared exactly when such a line contains `*/`, and it
\* is set only by a line outside a block comment that starts with `/*` and
\* has no `*/`
C20_BlockComment ==
    [][OneLineStep =>
          LET trimmed == Trim(lines[seen + 1].line) IN
          /\ counters.in_block_comment =>
                 /\ counters'.comment_lines = counters.comment_lines + 1
                 /\ counters'.in_block_comment <=> ~Contains(trimmed, <<"*", "/">>)
          /\ (~counters.in_block_comment /\ counters'.in_block_comment) =>
                 /\ StartsWith(trimmed, <<"/", "*">>)
                 /\ ~Contains(trimmed, <<"*", "/">>)]_vars

\* the opening minus the closing brackets of a line
NetOf(line) ==
    Cardinality({i \in 1..Len(line) : line[i] \in {"{", "(", "["}})
    - Cardinality({i \in 1..Len(line) : line[i] \in {"}", ")", "]"}})

\* the running depths after each of the lines of a content that starts at
\* the depth d
RECURSIVE RunningDepths(_, _, _)
RunningDepths(content, i, d) ==
    IF i > Len(content) THEN {}
    ELSE LET n == NetOf(content[i].line)
             count == Pow2(content[i].k)
         IN {d + n * j : j \in 1..count}
            \cup RunningDepths(content, i + 1, d + n * count)

\* a file with lines has been analysed, complexity included
NestingMeasured ==
    /\ pc = "analyzed"
    /\ fmetrics[1].complexity_metrics.some
    /\ lines # <<>>

\* C21 as stated: the max nesting depth is the greatest of the running
\* depths after the lines of the file, a negative one if all are negative
C21_Original ==
    NestingMeasured =>
        LET depths == RunningDepths(lines, 1, 0)
            reported == fmetrics[1].complexity_metrics.max_nesting_depth
        IN /\ reported \in depths
           /\ \A d \in depths : d <= reported

\* C21: the max nesting depth is the greatest of 0 and the running depths
\* after the lines of the file (cumulative count of `{`, `(`, `[` minus
\* `}`, `)`, `]`, itself not clamped at zero); it is never negative, and a
\* file whose running depth is negative after every line reports 0
C21_MaxDepth ==
    (pc = "analyzed" /\ fmetrics[1].complexity_metrics.some) =>
        LET depths == RunningDepths(lines, 1, 0) \cup {0}
            reported == fmetrics[1].complexity_metrics.max_nesting_depth
        IN /\ reported \in depths
           /\ \A d \in depths : d <= reported

\* a file whose running depth is negative after every line has been
\* analysed
C21_Witness ==
    /\ NestingMeasured
    /\ \A d \in RunningDepths(lines, 1, 0) : d < 0
    /\ fmetrics[1].complexity_metrics.max_nesting_depth = 0

\* the nesting level of calculate_cognitive_complexity after the first n
\* blocks of a content
NestingAfter(content, n, language) ==
    ComplexityLoops(ComplexityStart, SubSeq(content, 1, n), 1, language)
        .cognitive.nesting_level

\* what the keyword rules add to the nesting level at a line: 1 at a
\* control keyword that opens a block, at a closure, and in the .rs and
\* .js branches at an else or case that opens a block and is no new `if`
Opened(f, language) ==
    IF f.primary THEN (IF f.opens THEN 1 ELSE 0)
    ELSE IF f.else_like
    THEN (IF (LangRs(language) \/ LangJs(language)) /\ f.opens /\ ~f.has_if
          THEN 1 ELSE 0)
    ELSE IF f.closure THEN 1 ELSE 0

\* no control, else, case, closure or ternary rule applies to the line
NoKeyword(f) == ~f.primary /\ ~f.else_like /\ ~f.closure /\ ~f.ternary

\* C22: the nesting level of the cognitive complexity never goes below 0,
\* and every line with k >= 1 tokens `}` lowers it by k, floored at 0, also
\* when a keyword rule applies to the line, as in `} else {`: the level
\* after the line is the lowered one plus what the keyword rule adds
C22_BlockClose ==
    (pc = "analyzed" /\ fmetrics[1].complexity_metrics.some) =>
        \A i \in 1..Len(lines) :
            lines[i].k = 0 =>
                LET f == CognitiveFacts(lines[i].line, lang)
                    before == NestingAfter(lines, i - 1, lang)
                    after == NestingAfter(lines, i, lang)
                IN /\ after >= 0
                   /\ f.close_count >= 1 =>
                          after = saturating_sub(before, f.close_count)
                                  + Opened(f, lang)

\* the keyword rules alone over the 2^k equal lines of a block
RECURSIVE KeywordBlock(_, _, _, _)
KeywordBlock(st, f, language, k) ==
    IF k = 0 THEN CognitiveKeyword(st, f, language)
    ELSE LET half == KeywordBlock(st, f, language, k - 1) IN
         IF half = half THEN KeywordBlock(half, f, language, k - 1) ELSE half

\* the keyword rules alone over the lines of a content
RECURSIVE KeywordLoop(_, _, _, _)
KeywordLoop(st, content, i, language) ==
    IF i > Len(content) THEN st
    ELSE KeywordLoop(
             KeywordBlock(st, CognitiveFacts(content[i].line, language),
                          language, content[i].k),
             content, i + 1, language)

\* the occurrences of `&&` and of `||` in the lines of a content
RECURSIVE LogicalTokens(_, _)
LogicalTokens(content, i) ==
    IF i > Len(content) THEN 0
    ELSE Pow2(content[i].k)
             * (MatchCount(Trim(content[i].line), <<"&", "&">>, 1)
                + MatchCount(Trim(content[i].line), <<"|", "|">>, 1))
         + LogicalTokens(content, i + 1)

\* C23: in every language branch, the generic one included, the cognitive
\* complexity is what the keyword rules give plus 0.5 for each occurrence
\* of `&&` or `||` on any line
C23_LogicalOperators ==
    (pc = "analyzed" /\ fmetrics[1].complexity_metrics.some) =>
        fmetrics[1].complexity_metrics.cognitive_complexity
            = KeywordLoop(CognitiveStart, lines, 1, lang).complexity
              + (Scale \div 2) * LogicalTokens(lines, 1)

\* C28: for every file and every extension code_lines + comment_lines +
\* blank_lines equals line_count: the loop puts each line into exactly one
\* of the three classes, whatever the block-comment flag, so the counts sum
\* to the number of lines gone through at every point of the loop and in
\* the FileMetrics
C28_ClassesSumUp ==
    /\ pc = "classify" =>
           counters.code_lines + counters.comment_lines + counters.blank_lines
               = LineCount(SubSeq(lines, 1, seen))
    /\ pc \in {"built", "analyzed"} =>
           /\ fmetrics[1].code_lines + fmetrics[1].comment_lines + fmetrics[1].blank_lines
                  = fmetrics[1].line_count
           /\ fmetrics[1].line_count = LineCount(lines)

\* a file has been analysed that ends inside a block comment, with a blank
\* line and a line that is no comment by itself
C28_Witness ==
    /\ pc = "analyzed"
    /\ counters.in_block_comment
    /\ \E i \in 1..Len(lines) : lines[i].line \in {Line3, Line9}
    /\ fmetrics[1].comment_lines > 0

----------------------------------------------------------------------------
(* Properties of the import extraction                                     *)

\* the line is a `use <path>;` statement
IsUseLine(line) ==
    StartsWith(Trim(line), <<"u", "s", "e", " ">>) /\ EndsWith(Trim(line), <<";">>)

\* the path of a `use <path>;` line
UsePath(line) == Trim(SubSeq(Trim(line), 5, Len(Trim(line)) - 1))

\* the names a use path stands for: the crate-relative prefix stripped,
\* the rest split on `::`, and of the final segment either the items of
\* its brace group or the segment itself
UsePathNames(path) ==
    LET stripped == IF StartsWith(path, <<"c", "r", "a", "t", "e", ":", ":">>)
                    THEN SubSeq(path, Len(<<"c", "r", "a", "t", "e", ":", ":">>) + 1, Len(path)) ELSE path
        segments == Split(stripped, <<":", ":">>, 1)
        final == segments[Len(segments)]
    IN IF StartsWith(final, <<"{">>) /\ EndsWith(final, <<"}">>)
       THEN Items(SubSeq(final, 2, Len(final) - 1))
       ELSE <<final>>

\* the names of the references of file_imports found in line i, in order
NamesAt(i) ==
    LET found == SelectSeq(file_imports, LAMBDA r : r.line_number = i) IN
    [n \in 1..Len(found) |-> found[n].name]

\* C24: for a `use <path>;` line of a .rs file the crate-relative prefix is
\* stripped completely before the split on `::`: `use crate::foo;` emits
\* the one reference `foo`, `use crate::m::bar;` the one reference `bar`,
\* a final brace group one reference per trimmed non-empty item, and no
\* emitted name contains `:`, `{` or `}`
C24_UsePaths ==
    (pc = "extracted" /\ lang = "rs") =>
        \A i \in 1..Len(lines) :
            IsUseLine(lines[i].line) =>
                /\ NamesAt(i) = UsePathNames(UsePath(lines[i].line))
                /\ \A n \in 1..Len(NamesAt(i)) : \A c \in 1..Len(NamesAt(i)[n]) :
                       NamesAt(i)[n][c] \notin {":", "{", "}"}

\* the number of places of a sequence that hold x
Count(seq, x) == Cardinality({n \in 1..Len(seq) : seq[n] = x})

\* how often the generic patterns give the name in line i: once for every
\* piece between commas, of capture group 1 of every match of every
\* configured pattern, that is the name when trimmed
GenericCount(i, name) ==
    LET pats == import_patterns(lang)
        caps(p) == Captures(lines[i].line, pats[p], 1)
        pieces(p, c) == Split(Trim(caps(p)[c]), <<",">>, 1)
    IN Cardinality({x \in UNION {UNION {{<<p, c, n>> : n \in 1..Len(pieces(p, c))} :
                                           c \in 1..Len(caps(p))} :
                                   p \in 1..Len(pats)} :
                       Trim(pieces(x[1], x[2])[x[3]]) = name})

\* the references of the specialized `use` grammar for the file
Specialized ==
    IF lang = "rs"
    THEN extract_rust_imports(CHOOSE f \in Files : ExtensionOf(f) = lang, lines)
    ELSE <<>>

\* C25: extract_imports uses the generic patterns if and only if the
\* specialized `use` grammar found no reference in the whole file, as is
\* always so for a file that is no .rs file: when the grammar found a
\* reference the result is its references and nothing else, otherwise the
\* result holds one reference per trimmed non-empty comma-separated piece
\* of capture group 1 of every pattern match
C25_Fallback ==
    pc = "extracted" =>
        /\ lang # "rs" => Specialized = <<>>
        /\ Specialized # <<>> => file_imports = Specialized
        /\ Specialized = <<>> =>
               /\ \A r \in 1..Len(file_imports) :
                      /\ file_imports[r].name # <<>>
                      /\ file_imports[r].line_number \in 1..Len(lines)
               /\ \A i \in 1..Len(lines) :
                      \A name \in {file_imports[r].name : r \in 1..Len(file_imports)}
                                  \cup {<<"f", "o", "o">>, <<"b", "a", "r">>, <<"c", "r", "a", "t", "e", ":", ":", "f", "o", "o">>} :
                          Count(NamesAt(i), name) = GenericCount(i, name)

\* a .rs file in which the `use` grammar found nothing had references
\* found by the generic patterns
C25_Witness ==
    /\ pc = "extracted"
    /\ lang = "rs"
    /\ Specialized = <<>>
    /\ file_imports # <<>>

====
